---- MODULE Spec2Model ----
(***************************************************************************)
(* A model of the FeuerNES emulation core: the PPU's scanline accounting   *)
(* and NMI latch (src/src/ppu), the bus address decoder (src/src/bus.rs)   *)
(* and the 6502 interpreter step (src/src/cpu).  Every operation is a pure *)
(* operator on records that mirror the Rust structs; the actions apply     *)
(* them to the state.  A Rust panic is modelled by the flag `panicked`:    *)
(* the mutations made before the panic are kept and nothing runs after it. *)
(***************************************************************************)
EXTENDS Integers, Sequences, FiniteSets, TLC

VARIABLES
    cpu,              \* the CPU register file (struct CPU without its bus)
    bus,              \* struct Bus: vram (CPU RAM), prg_rom, ppu
    last,             \* the last operation performed, its inputs and its result
    panicked,         \* TRUE once an operation has panicked
    overflow_checks   \* the build profile: TRUE = debug (integer overflow panics)

vars == <<cpu, bus, last, panicked, overflow_checks>>

-----------------------------------------------------------------------------
(* Bit-level helpers for u8 / u16 values.                                  *)


RECURSIVE BitAnd(_, _)
BitAnd(a, b) ==
    IF a = 0 \/ b = 0 THEN 0
    ELSE (a % 2) * (b % 2) + 2 * BitAnd(a \div 2, b \div 2)

RECURSIVE BitOr(_, _)
BitOr(a, b) ==
    IF a = 0 THEN b
    ELSE IF b = 0 THEN a
    ELSE (IF a % 2 = 1 \/ b % 2 = 1 THEN 1 ELSE 0) + 2 * BitOr(a \div 2, b \div 2)

RECURSIVE BitXor(_, _)
BitXor(a, b) ==
    IF a = 0 THEN b
    ELSE IF b = 0 THEN a
    ELSE ((a + b) % 2) + 2 * BitXor(a \div 2, b \div 2)

\* A bool held in an integer field (true as 1).
Bool01(flag) == IF flag THEN 1 ELSE 0

\* bitflags: contains / insert / remove / set on an 8-bit flag word
contains(bits, flag) == BitAnd(bits, flag) = flag
insert(bits, flag) == BitOr(bits, flag)
remove(bits, flag) == bits - BitAnd(bits, flag)
set(bits, flag, value) == IF value THEN insert(bits, flag) ELSE remove(bits, flag)

\* A zero-initialised fixed-size byte array ([u8; n]), held as its length and
\* the cells that are not zero.
ZeroArray(n) == [len |-> n, cells |-> [i \in {} |-> 0]]

At(a, i) == IF i \in DOMAIN a.cells THEN a.cells[i] ELSE 0

Put(a, i, v) ==
    [a EXCEPT !.cells =
        [j \in (IF v = 0 THEN DOMAIN a.cells \ {i} ELSE DOMAIN a.cells \cup {i}) |->
            IF j = i THEN v ELSE a.cells[j]]]

-----------------------------------------------------------------------------
(* Program constants.                                                      *)

RAM_BEGIN == 0
RAM_END == 8191
PPU_REG_MIRROR_BEGIN == 8200
PPU_REG_MIRROR_END == 16383
PRG_BEGIN == 32768
PRG_END == 65535

PPU_REG_CTRL == 8192
PPU_REG_MASK == 8193
PPU_REG_STATUS == 8194
PPU_REG_OAMADDR == 8195
PPU_REG_OAMDATA == 8196
PPU_REG_SCROLL == 8197
PPU_REG_ADDR == 8198
PPU_REG_DATA == 8199
PPU_REG_OAMDMA == 16404

SCANLINE_CYCLES_COST == 341
SCANLINE_TRIGGER_NMI == 241
SCANLINE_PER_FRAME == 262

GEN_NMI_VBI == 128
VRAM_ADDR_INC == 4
SPR_OVERFLOW == 32
SPR_ZERO_HIT == 64
VBLANK == 128

-----------------------------------------------------------------------------
(* Cartridge images.  The PRG and CHR vectors are immutable once the bus   *)
(* is built, so the state holds the name of an image and the bytes are     *)
(* read through PrgLen / PrgAt / ChrLen / ChrAt.                            *)

\* A position-dependent filler: distinct in the two halves of a 32 KiB image.
FillByte(k) == (k + 7 * (k \div 256) + 101 * (k \div 16384)) % 256

\* A program for the interpreter, loaded at 0x8000 (the reset vector):
\*   8000 LDA #$80      8002 STA $2000     8005 LDX #$03     8007 DEX
\*   8008 BNE $8007     800A JSR $8010     800D CLC          800E BCC $8000
\*   8010 INX           8011 RTS
\* The NMI vector points at 0x8020.
Program ==
    << 169, 128,  141, 0, 32,  162, 3,  202,  208, 253,  32, 16, 128,  24,
       144, 240,  232,  96 >>

\* The ADC chain, loaded at 0x8000: ADC #$10; ADC #$20; BRK.
AdcChain == << 105, 16,  105, 32,  0 >>

\* The PRG images the bus is built from: `code` sits at offset 0, `vectors`
\* (NMI, reset, IRQ/BRK; little-endian) in the last six bytes, FillByte or
\* zero in between.
PrgImages ==
    [ fill16  |-> [len |-> 16384, code |-> <<>>, vectors |-> <<>>, fill |-> TRUE],
      fill32  |-> [len |-> 32768, code |-> <<>>, vectors |-> <<>>, fill |-> TRUE],
      prog16  |-> [len |-> 16384, code |-> Program, fill |-> FALSE,
                   vectors |-> <<32, 128, 0, 128, 0, 128>>],
      adc16   |-> [len |-> 16384, code |-> AdcChain, fill |-> FALSE,
                   vectors |-> <<32, 128, 0, 128, 0, 128>>] ]

PrgLen(image) == PrgImages[image].len

PrgAt(image, k) ==
    LET img == PrgImages[image] IN
    IF k < Len(img.code) THEN img.code[k + 1]
    ELSE IF Len(img.vectors) > 0 /\ k >= img.len - Len(img.vectors)
         THEN img.vectors[k - (img.len - Len(img.vectors)) + 1]
    ELSE IF img.fill THEN FillByte(k)
    ELSE 0

ChrLen(image) == 8192

ChrAt(image, k) == FillByte(k + 3)

-----------------------------------------------------------------------------
(* PPU registers (src/src/ppu/registers).                                  *)

get_generate_nmi(ctrl) == contains(ctrl, GEN_NMI_VBI)

get_vram_address_increment(ctrl) == IF ~contains(ctrl, VRAM_ADDR_INC) THEN 1 ELSE 32

set_vertical_blank(status, flag) == set(status, VBLANK, flag)

set_sprite_zero_hit(status, flag) == set(status, SPR_ZERO_HIT, flag)

get_vertical_blank(status) == contains(status, VBLANK)

set_sprite_overflow(status, flag) == set(status, SPR_OVERFLOW, flag)

reset_vertical_blank(status) == remove(status, VBLANK)

PPUADDR_new == [vram_addr |-> 0, write_hi |-> TRUE]

\* mirror_down without the mask.
mirror_down_keeps(r) == r

mirror_down(r) ==
    IF r.vram_addr > 16383 THEN [r EXCEPT !.vram_addr = BitAnd(r.vram_addr, 16383)] ELSE r

write_address(r, addr) ==
    LET w == IF r.write_hi
             THEN [r EXCEPT !.vram_addr = (addr * 256) % 65536]
             ELSE [r EXCEPT !.vram_addr = BitOr(r.vram_addr, addr)]
    IN mirror_down([w EXCEPT !.write_hi = ~r.write_hi])

\* `self.vram_addr.wrapping_add(inc as u16);` computes the sum and drops it:
\* the register keeps its value.
increment_address(r, inc) == mirror_down(r)

PPUSCROLL_new == [cam_position_x |-> 0, cam_position_y |-> 0, latch |-> TRUE]

PPUADDR_reset_latch(r) == [r EXCEPT !.write_hi = TRUE]

PPUSCROLL_reset_latch(r) == [r EXCEPT !.latch = TRUE]

\* PPUDATA::write_data on the data register.
write_data(r, data) == data

PPUSCROLL_write(r, cam_position) ==
    LET w == IF r.latch
             THEN [r EXCEPT !.cam_position_x = cam_position]
             ELSE [r EXCEPT !.cam_position_y = cam_position]
    IN [w EXCEPT !.latch = ~r.latch]

-----------------------------------------------------------------------------
(* PPU (src/src/ppu/mod.rs).                                               *)

PPU_new(chr, mirroring_type) ==
    [ chr |-> chr,
      palette |-> ZeroArray(32),
      vram |-> ZeroArray(2048),
      oam |-> ZeroArray(256),
      mirroring_type |-> mirroring_type,
      ctrl_register |-> 0,
      mask_register |-> 0,
      status_register |-> 0,
      oam_address_register |-> 0,
      oam_data_register |-> 0,
      scroll_register |-> PPUSCROLL_new,
      address_register |-> PPUADDR_new,
      data_register |-> 0,
      cycles |-> 0,
      scanlines |-> 0,
      should_nmi_flag |-> FALSE,
      internal_last_read_byte |-> 0 ]

\* tick_vblank with the NMI latched whatever CTRL says.
tick_vblank_always_nmi(p) ==
    IF p.scanlines = SCANLINE_TRIGGER_NMI
    THEN [p EXCEPT
            !.status_register =
                set_sprite_zero_hit(set_vertical_blank(p.status_register, TRUE), FALSE),
            !.should_nmi_flag = TRUE]
    ELSE p

\* The vblank entry of tick: `if self.scanlines == SCANLINE_TRIGGER_NMI`.
tick_vblank(p) ==
    IF p.scanlines = SCANLINE_TRIGGER_NMI
    THEN [p EXCEPT
            !.status_register =
                set_sprite_zero_hit(set_vertical_blank(p.status_register, TRUE), FALSE),
            !.should_nmi_flag =
                IF get_generate_nmi(p.ctrl_register) THEN TRUE ELSE p.should_nmi_flag]
    ELSE p

\* tick_frame_end that keeps a pending NMI across the frame.
tick_frame_end_keeps_nmi(p) ==
    IF p.scanlines >= SCANLINE_PER_FRAME
    THEN [p EXCEPT
            !.scanlines = 0,
            !.status_register =
                set_vertical_blank(set_sprite_zero_hit(p.status_register, FALSE), FALSE)]
    ELSE p

\* The end of the frame in tick: `if self.scanlines >= SCANLINE_PER_FRAME`.
tick_frame_end(p) ==
    IF p.scanlines >= SCANLINE_PER_FRAME
    THEN [p EXCEPT
            !.scanlines = 0,
            !.should_nmi_flag = FALSE,
            !.status_register =
                set_vertical_blank(set_sprite_zero_hit(p.status_register, FALSE), FALSE)]
    ELSE p

\* One scanline is accounted per call: `if self.cycles >= SCANLINE_CYCLES_COST`.
tick_scanline(p) ==
    IF p.cycles >= SCANLINE_CYCLES_COST
    THEN tick_frame_end(tick_vblank(
            [p EXCEPT !.cycles = p.cycles - SCANLINE_CYCLES_COST,
                      !.scanlines = p.scanlines + 1]))
    ELSE p

\* PPU::tick.  `self.cycles += cycles` is a u16 addition: on overflow a build
\* with overflow checks panics and one without wraps.
tick(p, cycles, checks) ==
    IF p.cycles + cycles > 65535 /\ checks
    THEN [ppu |-> p, panic |-> TRUE]
    ELSE [ppu |-> tick_scanline([p EXCEPT !.cycles = (p.cycles + cycles) % 65536]),
          panic |-> FALSE]

\* should_nmi that reports the latch and leaves it set.
should_nmi_no_clear(p) == [ppu |-> p, ret |-> p.should_nmi_flag]

\* PPU::should_nmi: returns the latch and clears it.
should_nmi(p) ==
    IF p.should_nmi_flag
    THEN [ppu |-> [p EXCEPT !.should_nmi_flag = FALSE], ret |-> TRUE]
    ELSE [ppu |-> p, ret |-> FALSE]

\* PPU::read (the data port).
PPU_read(p) ==
    LET access(addr, q) ==
        IF addr <= 8191
        THEN IF addr < ChrLen(p.chr)
             THEN [ppu |-> [q EXCEPT !.internal_last_read_byte = ChrAt(p.chr, addr)],
                   ret |-> ChrAt(p.chr, addr), panic |-> FALSE]
             ELSE [ppu |-> q, ret |-> 0, panic |-> TRUE]
        ELSE IF addr <= 12287
        THEN IF addr - 8192 < q.vram.len
             THEN [ppu |-> [q EXCEPT !.internal_last_read_byte = At(q.vram, addr - 8192)],
                   ret |-> At(q.vram, addr - 8192), panic |-> FALSE]
             ELSE [ppu |-> q, ret |-> 0, panic |-> TRUE]
        ELSE IF addr <= 16127
        THEN [ppu |-> q, ret |-> 0, panic |-> TRUE]
        ELSE IF addr <= 16383
        THEN IF addr - 16128 < q.palette.len
             THEN [ppu |-> q, ret |-> At(q.palette, addr - 16128), panic |-> FALSE]
             ELSE [ppu |-> q, ret |-> 0, panic |-> TRUE]
        ELSE [ppu |-> q, ret |-> 0, panic |-> TRUE]
    IN  access(p.address_register.vram_addr,
               [p EXCEPT !.address_register =
                   increment_address(p.address_register,
                                     get_vram_address_increment(p.ctrl_register))])

\* PPU::write (the data port).
PPU_write(p, data) ==
    LET access(addr, q) ==
        IF addr <= 8191
        THEN [ppu |-> q, panic |-> TRUE]
        ELSE IF addr <= 12287
        THEN IF addr - 8192 < q.vram.len
             THEN [ppu |-> [q EXCEPT !.vram = Put(q.vram, addr - 8192, data)], panic |-> FALSE]
             ELSE [ppu |-> q, panic |-> TRUE]
        ELSE IF addr <= 16127
        THEN [ppu |-> q, panic |-> TRUE]
        ELSE IF addr \in {16144, 16148, 16152, 16156}
        THEN [ppu |-> [q EXCEPT !.palette = Put(q.palette, addr - 16 - 16128, data)], panic |-> FALSE]
        ELSE IF addr <= 16383
        THEN IF addr - 16128 < q.palette.len
             THEN [ppu |-> [q EXCEPT !.palette = Put(q.palette, addr - 16128, data)], panic |-> FALSE]
             ELSE [ppu |-> q, panic |-> TRUE]
        ELSE [ppu |-> q, panic |-> TRUE]
    IN  access(p.address_register.vram_addr,
               [p EXCEPT !.address_register =
                   increment_address(p.address_register,
                                     get_vram_address_increment(p.ctrl_register))])

-----------------------------------------------------------------------------
(* Bus (src/src/bus.rs).                                                   *)

Bus_new(cartridge) ==
    [ vram |-> ZeroArray(2048),
      prg_rom |-> cartridge.prg,
      ppu |-> PPU_new(cartridge.chr, cartridge.mirroring_type) ]

\* read_prg_rom that folds every image into 16 KiB.
read_prg_rom_always_mirrors(b, addr) ==
    LET a1 == (addr - 32768) % 16384
    IN  IF a1 < PrgLen(b.prg_rom)
        THEN [bus |-> b, ret |-> PrgAt(b.prg_rom, a1), panic |-> FALSE]
        ELSE [bus |-> b, ret |-> 0, panic |-> TRUE]

\* Bus::read_prg_rom: a 16 KiB image is mirrored into the upper half; an
\* index past the end of the vector panics.
read_prg_rom(b, addr) ==
    LET a0 == addr - 32768
        a1 == IF PrgLen(b.prg_rom) = 16384 /\ a0 >= 16384 THEN a0 % 16384 ELSE a0
    IN  IF a1 < PrgLen(b.prg_rom)
        THEN [bus |-> b, ret |-> PrgAt(b.prg_rom, a1), panic |-> FALSE]
        ELSE [bus |-> b, ret |-> 0, panic |-> TRUE]

\* Bus::mem_read; the arms are tried in the order of the match.
RECURSIVE mem_read(_, _)
mem_read(b, addr) ==
    IF addr >= RAM_BEGIN /\ addr <= RAM_END
    THEN [bus |-> b, ret |-> At(b.vram, BitAnd(addr, 2047)), panic |-> FALSE]
    ELSE IF addr \in {PPU_REG_CTRL, PPU_REG_MASK, PPU_REG_OAMADDR, PPU_REG_SCROLL,
                      PPU_REG_ADDR, PPU_REG_OAMDMA}
    THEN [bus |-> b, ret |-> 0, panic |-> TRUE]
    ELSE IF addr = PPU_REG_STATUS
    THEN [bus |-> b, ret |-> 0, panic |-> TRUE]       \* todo!()
    ELSE IF addr = PPU_REG_OAMDATA
    THEN [bus |-> b, ret |-> b.ppu.oam_data_register, panic |-> FALSE]
    ELSE IF addr = PPU_REG_DATA
    THEN LET data_port(r) ==
                 [bus |-> [b EXCEPT !.ppu = r.ppu], ret |-> r.ret, panic |-> r.panic]
         IN  data_port(PPU_read(b.ppu))
    ELSE IF addr >= PPU_REG_MIRROR_BEGIN /\ addr <= PPU_REG_MIRROR_END
    THEN mem_read(b, BitAnd(addr, 8199))
    ELSE IF addr >= PRG_BEGIN /\ addr <= PRG_END
    THEN read_prg_rom(b, addr)
    ELSE [bus |-> b, ret |-> 0, panic |-> FALSE]

\* The RAM arm of mem_write with the address masked to 4 KiB instead of 2 KiB.
ram_write_wide_mask(b, addr, data) ==
    IF BitAnd(addr, 4095) < b.vram.len
    THEN [bus |-> [b EXCEPT !.vram = Put(b.vram, BitAnd(addr, 4095), data)], panic |-> FALSE]
    ELSE [bus |-> b, panic |-> TRUE]

\* The RAM arm of mem_write: `self.vram[(addr & 0x7FF) as usize] = data`.
ram_write(b, addr, data) ==
    [bus |-> [b EXCEPT !.vram = Put(b.vram, BitAnd(addr, 2047), data)], panic |-> FALSE]

\* Bus::mem_write; the arm of the register mirrors 0x2008..0x3FFF is empty.
mem_write(b, addr, data) ==
    IF addr >= RAM_BEGIN /\ addr <= RAM_END
    THEN ram_write(b, addr, data)
    ELSE IF addr = PPU_REG_CTRL
    THEN [bus |-> [b EXCEPT !.ppu.ctrl_register = data], panic |-> FALSE]
    ELSE IF addr = PPU_REG_MASK
    THEN [bus |-> [b EXCEPT !.ppu.mask_register = data], panic |-> FALSE]
    ELSE IF addr = PPU_REG_STATUS
    THEN [bus |-> b, panic |-> TRUE]
    ELSE IF addr = PPU_REG_OAMADDR
    THEN [bus |-> [b EXCEPT !.ppu.oam_address_register = data], panic |-> FALSE]
    ELSE IF addr = PPU_REG_OAMDATA
    THEN [bus |-> [b EXCEPT !.ppu.oam_data_register = data], panic |-> FALSE]
    ELSE IF addr = PPU_REG_SCROLL
    THEN [bus |-> [b EXCEPT !.ppu.scroll_register =
                                PPUSCROLL_write(b.ppu.scroll_register, data)],
          panic |-> FALSE]
    ELSE IF addr = PPU_REG_ADDR
    THEN [bus |-> [b EXCEPT !.ppu.address_register =
                                write_address(b.ppu.address_register, data)],
          panic |-> FALSE]
    ELSE IF addr = PPU_REG_DATA
    THEN LET data_port(r) == [bus |-> [b EXCEPT !.ppu = r.ppu], panic |-> r.panic]
         IN  data_port(PPU_write(b.ppu, data))
    ELSE IF addr >= PPU_REG_MIRROR_BEGIN /\ addr <= PPU_REG_MIRROR_END
    THEN [bus |-> b, panic |-> FALSE]
    ELSE IF addr >= PRG_BEGIN /\ addr <= PRG_END
    THEN [bus |-> b, panic |-> TRUE]
    ELSE [bus |-> b, panic |-> FALSE]

-----------------------------------------------------------------------------
(* CPU construction (src/src/cpu/mod.rs).                                  *)

STACK_RESET_LOC == 253
UNUSED == 32

CPU_new ==
    [pc |-> 0, sp |-> STACK_RESET_LOC, acc |-> 0, rx |-> 0, ry |-> 0, status |-> UNUSED]

\* CPUStatus (bitflags) and the locations of common.rs.
NEGATIVE == 128
OVERFLOW == 64
BREAK == 16
DECIMAL == 8
INTERRUPT_DISABLE == 4
ZERO == 2
CARRY == 1

RESET_INTERRUPT_MEM_LOC == 65532
STACK_BOTTOM_LOC == 256

-----------------------------------------------------------------------------
(* The CPU with its bus.  A machine is [cpu, bus, panic, checks]: the      *)
(* register file, the bus it owns, whether a panic has unwound the call,   *)
(* and whether the build checks integer overflow.  After a panic every     *)
(* later step of the same call is skipped.                                 *)

Machine(c, b, checks) == [cpu |-> c, bus |-> b, panic |-> FALSE, checks |-> checks]

\* An assignment to CPU fields, reached only if nothing before it panicked.
commit(m, c) == IF m.panic THEN m ELSE [m EXCEPT !.cpu = c]

\* `a + b` on u16: a panic where overflow is checked, a wrap elsewhere.
add_u16(m, a, b) ==
    IF m.panic THEN [m |-> m, ret |-> 0]
    ELSE IF a + b > 65535
    THEN IF m.checks THEN [m |-> [m EXCEPT !.panic = TRUE], ret |-> 0]
         ELSE [m |-> m, ret |-> (a + b) % 65536]
    ELSE [m |-> m, ret |-> a + b]

\* impl Memory for CPU: mem_read / mem_write go to the bus.
CPU_mem_read(m, addr) ==
    LET done(r) == [m |-> [m EXCEPT !.bus = r.bus, !.panic = r.panic], ret |-> r.ret]
    IN  IF m.panic THEN [m |-> m, ret |-> 0] ELSE done(mem_read(m.bus, addr))

CPU_mem_write(m, addr, data) ==
    LET done(r) == [m EXCEPT !.bus = r.bus, !.panic = r.panic]
    IN  IF m.panic THEN m ELSE done(mem_write(m.bus, addr, data))

\* The little-endian 16-bit read: the low byte at addr, the high byte at
\* addr + 1.
mem_read_u16(m, addr) ==
    LET word(lo, hi) == [m |-> hi.m, ret |-> hi.ret * 256 + lo.ret]
        high(lo, nx) == word(lo, CPU_mem_read(nx.m, nx.ret))
        low(lo) == high(lo, add_u16(lo.m, addr, 1))
    IN  low(CPU_mem_read(m, addr))

\* The little-endian 16-bit write: the low byte at addr, then the high byte
\* at addr + 1.
mem_write_u16(m, addr, data) ==
    LET high(nx) == CPU_mem_write(nx.m, nx.ret, data \div 256)
    IN  high(add_u16(CPU_mem_write(m, addr, data % 256), addr, 1))

\* common.rs: flag updates on the register file.
update_zero_flag(c, flag) == [c EXCEPT !.status = set(c.status, ZERO, flag = 0)]

update_neg_flag(c, flag) ==
    [c EXCEPT !.status = set(c.status, NEGATIVE, BitAnd(flag, 128) # 0)]

update_overflow_flag(c, flag) == [c EXCEPT !.status = set(c.status, OVERFLOW, flag)]

update_carry_flag(c, flag) == [c EXCEPT !.status = set(c.status, CARRY, flag)]

\* common.rs: the stack lives at 0x0100 + sp; sp wraps within one byte.
\* stack_push with a stack pointer that stops at zero instead of wrapping.
stack_push_saturating(m, value) ==
    LET moved(w) == commit(w, [w.cpu EXCEPT !.sp = IF w.cpu.sp = 0 THEN 0 ELSE w.cpu.sp - 1])
    IN  moved(CPU_mem_write(m, m.cpu.sp + STACK_BOTTOM_LOC, value))

stack_push(m, value) ==
    LET moved(w) == commit(w, [w.cpu EXCEPT !.sp = (w.cpu.sp + 255) % 256])
    IN  moved(CPU_mem_write(m, m.cpu.sp + STACK_BOTTOM_LOC, value))

stack_pop(m) ==
    LET top(m1) == CPU_mem_read(m1, m1.cpu.sp + STACK_BOTTOM_LOC)
    IN  top(commit(m, [m.cpu EXCEPT !.sp = (m.cpu.sp + 1) % 256]))

stack_push_u16(m, value) ==
    stack_push(stack_push(m, (value \div 256) % 256), value % 256)

stack_pop_u16(m) ==
    LET word(lo, hi) == [m |-> hi.m, ret |-> hi.ret * 256 + lo.ret]
        low(lo) == word(lo, stack_pop(lo.m))
    IN  low(stack_pop(m))

compare(c, v1, v2) ==
    LET res == (v1 - v2 + 256) % 256
    IN  update_neg_flag(update_zero_flag(update_carry_flag(c, v1 >= v2), res), res)

\* `offset as i8` then `as u16`: the sign-extended 16-bit pattern.
SignExtend(offset) == IF offset >= 128 THEN offset + 65280 ELSE offset

branch(m, flag) ==
    LET jump(r) ==
            commit(r.m, [r.m.cpu EXCEPT !.pc = (m.cpu.pc + 1 + SignExtend(r.ret)) % 65536])
    IN  IF flag THEN jump(CPU_mem_read(m, m.cpu.pc)) ELSE m

\* add_to_acc without the carry input.
add_to_acc_ignores_carry(c, data) ==
    LET sum == c.acc + data
        res == sum % 256
        c1 == update_carry_flag(c, sum > 255)
        c2 == update_overflow_flag(c1,
                  BitAnd(BitAnd(BitXor(data, res), BitXor(c.acc, res)), 128) # 0)
    IN  [c2 EXCEPT !.acc = res]

\* common::add_to_acc
add_to_acc(c, data) ==
    LET cur_carry == IF contains(c.status, CARRY) THEN 1 ELSE 0
        sum == c.acc + data + cur_carry
        res == sum % 256
        c1 == update_carry_flag(c, sum > 255)
        c2 == update_overflow_flag(c1,
                  BitAnd(BitAnd(BitXor(data, res), BitXor(c.acc, res)), 128) # 0)
    IN  [c2 EXCEPT !.acc = res]

\* CPU::reset: registers first, then the program counter from 0xFFFC.
reset(m) ==
    LET stack(m2) == commit(m2, [m2.cpu EXCEPT !.sp = STACK_RESET_LOC])
        vector(r) == stack(commit(r.m, [r.m.cpu EXCEPT !.pc = r.ret]))
    IN  vector(mem_read_u16(
            commit(m, [m.cpu EXCEPT !.acc = 0, !.rx = 0, !.ry = 0, !.status = UNUSED]),
            RESET_INTERRUPT_MEM_LOC))

\* CPU::get_absolute_address
get_absolute_address(m, mode, addr) ==
    LET plus8(pos, reg) == [m |-> pos.m, ret |-> (pos.ret + reg) % 256]
        plus16(pos, reg) == [m |-> pos.m, ret |-> (pos.ret + reg) % 65536]
        word(lo, hi) == [m |-> hi.m, ret |-> hi.ret * 256 + lo.ret]
        deref_hi(ptr, lo) == word(lo, CPU_mem_read(lo.m, (ptr + 1) % 256))
        deref(pm, ptr) == deref_hi(ptr, CPU_mem_read(pm, ptr))
        indirect_x(base) == deref(base.m, (base.ret + m.cpu.rx) % 256)
        indirect_y(base) == plus16(deref(base.m, base.ret), m.cpu.ry)
    IN  CASE mode = "ZeroPage" -> CPU_mem_read(m, addr)
          [] mode = "ZeroPageX" -> plus8(CPU_mem_read(m, addr), m.cpu.rx)
          [] mode = "ZeroPageY" -> plus8(CPU_mem_read(m, addr), m.cpu.ry)
          [] mode = "Absolute" -> mem_read_u16(m, addr)
          [] mode = "AbsoluteX" -> plus16(mem_read_u16(m, addr), m.cpu.rx)
          [] mode = "AbsoluteY" -> plus16(mem_read_u16(m, addr), m.cpu.ry)
          [] mode = "IndirectX" -> indirect_x(CPU_mem_read(m, addr))
          [] mode = "IndirectY" -> indirect_y(CPU_mem_read(m, addr))
          [] OTHER -> [m |-> [m EXCEPT !.panic = TRUE], ret |-> 0]

\* CPU::get_operand_address
get_operand_address(m, mode) ==
    IF m.panic THEN [m |-> m, ret |-> 0]
    ELSE IF mode = "Immediate" THEN [m |-> m, ret |-> m.cpu.pc]
    ELSE get_absolute_address(m, mode, m.cpu.pc)

\* The opening of most instructions: the operand's address and its value.
read_operand(m, mode) ==
    LET value(a, v) == [m |-> v.m, addr |-> a.ret, ret |-> v.ret]
        address(a) == value(a, CPU_mem_read(a.m, a.ret))
    IN  address(get_operand_address(m, mode))

\* Zero then negative flag, or negative then zero: the two touch distinct bits.
update_zn(c, v) == update_neg_flag(update_zero_flag(c, v), v)

-----------------------------------------------------------------------------
(* Instructions (src/src/cpu/instructions).                                *)

\* transfer.rs
lda(m, mode) ==
    LET load(r) == commit(r.m, update_zn([r.m.cpu EXCEPT !.acc = r.ret], r.ret))
    IN  load(read_operand(m, mode))

ldx(m, mode) ==
    LET load(r) == commit(r.m, update_zn([r.m.cpu EXCEPT !.rx = r.ret], r.ret))
    IN  load(read_operand(m, mode))

ldy(m, mode) ==
    LET load(r) == commit(r.m, update_zn([r.m.cpu EXCEPT !.ry = r.ret], r.ret))
    IN  load(read_operand(m, mode))

tax(m) == commit(m, update_zn([m.cpu EXCEPT !.rx = m.cpu.acc], m.cpu.acc))
tay(m) == commit(m, update_zn([m.cpu EXCEPT !.ry = m.cpu.acc], m.cpu.acc))
txa(m) == commit(m, update_zn([m.cpu EXCEPT !.acc = m.cpu.rx], m.cpu.rx))
tya(m) == commit(m, update_zn([m.cpu EXCEPT !.acc = m.cpu.ry], m.cpu.ry))
tsx(m) == commit(m, update_zn([m.cpu EXCEPT !.rx = m.cpu.sp], m.cpu.sp))
\* txs updates N and Z from the new stack pointer.
txs(m) == commit(m, update_zn([m.cpu EXCEPT !.sp = m.cpu.rx], m.cpu.rx))

dex(m) == LET v == (m.cpu.rx + 255) % 256 IN commit(m, update_zn([m.cpu EXCEPT !.rx = v], v))
dey(m) == LET v == (m.cpu.ry + 255) % 256 IN commit(m, update_zn([m.cpu EXCEPT !.ry = v], v))
inx(m) == LET v == (m.cpu.rx + 1) % 256 IN commit(m, update_zn([m.cpu EXCEPT !.rx = v], v))
iny(m) == LET v == (m.cpu.ry + 1) % 256 IN commit(m, update_zn([m.cpu EXCEPT !.ry = v], v))

\* sbc adds `(value as i8).wrapping_neg().wrapping_sub(1) as u8`.
\* sbc adding the two's complement of the operand.
sbc_adds_negation(m, mode) ==
    LET add(r) == commit(r.m, add_to_acc(r.m.cpu, (256 - r.ret) % 256))
    IN  add(read_operand(m, mode))

sbc(m, mode) ==
    LET add(r) == commit(r.m, add_to_acc(r.m.cpu, (((256 - r.ret) % 256) + 255) % 256))
    IN  add(read_operand(m, mode))

\* bitwise.rs
adc(m, mode) ==
    LET add(r) == commit(r.m, add_to_acc(r.m.cpu, r.ret))
    IN  add(read_operand(m, mode))

and(m, mode) ==
    LET store(mm, res) == commit(mm, [update_zn(mm.cpu, res) EXCEPT !.acc = res])
        combine(r) == store(r.m, BitAnd(m.cpu.acc, r.ret))
    IN  combine(read_operand(m, mode))

ora(m, mode) ==
    LET store(mm, res) == commit(mm, [update_zn(mm.cpu, res) EXCEPT !.acc = res])
        combine(r) == store(r.m, BitOr(m.cpu.acc, r.ret))
    IN  combine(read_operand(m, mode))

eor(m, mode) ==
    LET store(mm, res) == commit(mm, [update_zn(mm.cpu, res) EXCEPT !.acc = res])
        combine(r) == store(r.m, BitXor(m.cpu.acc, r.ret))
    IN  combine(read_operand(m, mode))

rol_acc(m) ==
    LET store(res) ==
            commit(m, [update_zn(update_carry_flag(m.cpu, m.cpu.acc \div 128 = 1), res) EXCEPT !.acc = res])
    IN  store(BitOr((m.cpu.acc * 2) % 256, BitAnd(1, m.cpu.status)))

rol(m, mode) ==
    LET store(r, res) ==
            CPU_mem_write(commit(r.m, update_zn(update_carry_flag(r.m.cpu, r.ret \div 128 = 1), res)),
                          r.addr, res)
        shift(r) == store(r, BitOr((r.ret * 2) % 256, BitAnd(1, m.cpu.status)))
    IN  shift(read_operand(m, mode))

ror_acc(m) ==
    LET store(res) ==
            commit(m, [update_zn(update_carry_flag(m.cpu, BitAnd(m.cpu.acc, 1) = 1), res) EXCEPT !.acc = res])
    IN  store(BitOr(m.cpu.acc \div 2, (m.cpu.status * 128) % 256))

\* ror on memory stores its result in the accumulator.
ror(m, mode) ==
    LET store(r, res) ==
            commit(r.m, [update_zn(update_carry_flag(r.m.cpu, BitAnd(r.ret, 1) = 1), res)
                            EXCEPT !.acc = res])
        shift(r) == store(r, BitOr(r.ret \div 2, (m.cpu.status * 128) % 256))
    IN  shift(read_operand(m, mode))

lsr_acc(m) ==
    LET store(res) ==
            commit(m, [update_zn(update_carry_flag(m.cpu, BitAnd(m.cpu.acc, 1) = 1), res) EXCEPT !.acc = res])
    IN  store(m.cpu.acc \div 2)

lsr(m, mode) ==
    LET store(r, res) ==
            CPU_mem_write(commit(r.m, update_zn(update_carry_flag(r.m.cpu, BitAnd(r.ret, 1) = 1), res)),
                          r.addr, res)
        shift(r) == store(r, r.ret \div 2)
    IN  shift(read_operand(m, mode))

asl_acc(m) ==
    LET store(res) ==
            commit(m, [update_zn(update_carry_flag(m.cpu, m.cpu.acc \div 128 = 1), res) EXCEPT !.acc = res])
    IN  store((m.cpu.acc * 2) % 256)

asl(m, mode) ==
    LET store(r, res) ==
            CPU_mem_write(commit(r.m, update_zn(update_carry_flag(r.m.cpu, r.ret \div 128 = 1), res)),
                          r.addr, res)
        shift(r) == store(r, (r.ret * 2) % 256)
    IN  shift(read_operand(m, mode))

\* memory.rs
dec(m, mode) ==
    LET store(r, res) == CPU_mem_write(commit(r.m, update_zn(r.m.cpu, res)), r.addr, res)
        step(r) == store(r, (r.ret + 255) % 256)
    IN  step(read_operand(m, mode))

inc(m, mode) ==
    LET store(r, res) == CPU_mem_write(commit(r.m, update_zn(r.m.cpu, res)), r.addr, res)
        step(r) == store(r, (r.ret + 1) % 256)
    IN  step(read_operand(m, mode))

sta(m, mode) ==
    LET store(a) == CPU_mem_write(a.m, a.ret, m.cpu.acc)
    IN  store(get_operand_address(m, mode))

stx(m, mode) ==
    LET store(a) == CPU_mem_write(a.m, a.ret, m.cpu.rx)
    IN  store(get_operand_address(m, mode))

sty(m, mode) ==
    LET store(a) == CPU_mem_write(a.m, a.ret, m.cpu.ry)
    IN  store(get_operand_address(m, mode))

\* compare.rs
cmp(m, mode) ==
    LET flags(r) == commit(r.m, compare(r.m.cpu, m.cpu.acc, r.ret))
    IN  flags(read_operand(m, mode))

cpx(m, mode) ==
    LET flags(r) == commit(r.m, compare(r.m.cpu, m.cpu.rx, r.ret))
    IN  flags(read_operand(m, mode))

cpy(m, mode) ==
    LET flags(r) == commit(r.m, compare(r.m.cpu, m.cpu.ry, r.ret))
    IN  flags(read_operand(m, mode))

\* status.rs
clc(m) == commit(m, [m.cpu EXCEPT !.status = remove(m.cpu.status, CARRY)])
cld(m) == commit(m, [m.cpu EXCEPT !.status = remove(m.cpu.status, DECIMAL)])
cli(m) == commit(m, [m.cpu EXCEPT !.status = remove(m.cpu.status, INTERRUPT_DISABLE)])
clv(m) == commit(m, [m.cpu EXCEPT !.status = remove(m.cpu.status, OVERFLOW)])
sec(m) == commit(m, [m.cpu EXCEPT !.status = insert(m.cpu.status, CARRY)])
sed(m) == commit(m, [m.cpu EXCEPT !.status = insert(m.cpu.status, DECIMAL)])
sei(m) == commit(m, [m.cpu EXCEPT !.status = insert(m.cpu.status, INTERRUPT_DISABLE)])

\* bit: the overflow flag is updated with `value & 0b0100_0000 == 1`.
bit(m, mode) ==
    LET flags(r) ==
            commit(r.m,
                update_zero_flag(
                    update_overflow_flag(update_neg_flag(r.m.cpu, r.ret),
                                         BitAnd(r.ret, 64) = 1),
                    BitAnd(m.cpu.acc, r.ret)))
    IN  flags(read_operand(m, mode))

\* stack.rs
php(m) == stack_push(m, insert(insert(m.cpu.status, BREAK), UNUSED))

\* plp leaving the popped BREAK bit in the live status.
plp_keeps_break(m) ==
    LET restore(s) == commit(s.m, [s.m.cpu EXCEPT !.status = s.ret])
    IN  restore(stack_pop(m))

plp(m) ==
    LET restore(s) == commit(s.m, [s.m.cpu EXCEPT !.status = remove(s.ret, BREAK)])
    IN  restore(stack_pop(m))

pha(m) == stack_push(m, m.cpu.acc)

pla(m) ==
    LET restore(s) == commit(s.m, update_zn([s.m.cpu EXCEPT !.acc = s.ret], s.ret))
    IN  restore(stack_pop(m))

\* jump.rs
jsr(m, mode) ==
    LET jump(a) == commit(a.m, [a.m.cpu EXCEPT !.pc = a.ret])
        push(ra) == jump(get_operand_address(stack_push_u16(ra.m, ra.ret), mode))
    IN  push(add_u16(m, m.cpu.pc, 1))

rts(m) ==
    LET jump(n) == commit(n.m, [n.m.cpu EXCEPT !.pc = n.ret])
        popped(p) == jump(add_u16(p.m, p.ret, 1))
    IN  popped(stack_pop_u16(m))

rti(m) ==
    LET jump(p) == commit(p.m, [p.m.cpu EXCEPT !.pc = p.ret])
        status(s) ==
            jump(stack_pop_u16(commit(s.m, [s.m.cpu EXCEPT !.status = remove(s.ret, BREAK)])))
    IN  status(stack_pop(m))

\* branch.rs
bcc(m) == branch(m, ~contains(m.cpu.status, CARRY))
bcs(m) == branch(m, contains(m.cpu.status, CARRY))
beq(m) == branch(m, contains(m.cpu.status, ZERO))
bmi(m) == branch(m, contains(m.cpu.status, NEGATIVE))
bne(m) == branch(m, ~contains(m.cpu.status, ZERO))
bpl(m) == branch(m, ~contains(m.cpu.status, NEGATIVE))
bvc(m) == branch(m, ~contains(m.cpu.status, OVERFLOW))
bvs(m) == branch(m, contains(m.cpu.status, OVERFLOW))

-----------------------------------------------------------------------------
(* The opcode table (src/src/cpu/opcode.rs): opcode, name, bytes, base     *)
(* cycles, addressing mode.                                                *)

OPCODES ==
    { 
      <<0, "BRK", 1, 7, "NoneAddressing">>, <<170, "TAX", 1, 2, "NoneAddressing">>,
      <<168, "TAY", 1, 2, "NoneAddressing">>, <<138, "TXA", 1, 2, "NoneAddressing">>,
      <<152, "TYA", 1, 2, "NoneAddressing">>, <<186, "TSX", 1, 2, "NoneAddressing">>,
      <<154, "TXS", 1, 2, "NoneAddressing">>, <<169, "LDA", 2, 2, "Immediate">>,
      <<165, "LDA", 2, 3, "ZeroPage">>, <<181, "LDA", 2, 4, "ZeroPageX">>,
      <<173, "LDA", 3, 4, "Absolute">>, <<189, "LDA", 3, 4, "AbsoluteX">>,
      <<185, "LDA", 3, 4, "AbsoluteY">>, <<161, "LDA", 2, 6, "IndirectX">>,
      <<177, "LDA", 2, 5, "IndirectY">>, <<162, "LDX", 2, 2, "Immediate">>,
      <<166, "LDX", 2, 3, "ZeroPage">>, <<182, "LDX", 2, 4, "ZeroPageY">>,
      <<174, "LDX", 3, 4, "Absolute">>, <<190, "LDX", 3, 4, "AbsoluteY">>,
      <<160, "LDY", 2, 2, "Immediate">>, <<164, "LDY", 2, 3, "ZeroPage">>,
      <<180, "LDY", 2, 4, "ZeroPageX">>, <<172, "LDY", 3, 4, "Absolute">>,
      <<188, "LDY", 3, 4, "AbsoluteX">>, <<133, "STA", 2, 3, "ZeroPage">>,
      <<149, "STA", 2, 4, "ZeroPageX">>, <<141, "STA", 3, 4, "Absolute">>,
      <<157, "STA", 3, 5, "AbsoluteX">>, <<153, "STA", 3, 5, "AbsoluteY">>,
      <<129, "STA", 2, 6, "IndirectX">>, <<145, "STA", 2, 6, "IndirectX">>,
      <<134, "STX", 2, 3, "ZeroPage">>, <<150, "STX", 2, 4, "ZeroPageY">>,
      <<142, "STX", 3, 4, "Absolute">>, <<132, "STY", 2, 3, "ZeroPage">>,
      <<148, "STY", 2, 4, "ZeroPageX">>, <<140, "STY", 3, 4, "Absolute">>,
      <<105, "ADC", 2, 2, "Immediate">>, <<101, "ADC", 2, 3, "ZeroPage">>,
      <<117, "ADC", 2, 4, "ZeroPageX">>, <<109, "ADC", 3, 4, "Absolute">>,
      <<125, "ADC", 3, 4, "AbsoluteX">>, <<121, "ADC", 3, 4, "AbsoluteY">>,
      <<97, "ADC", 2, 6, "IndirectX">>, <<113, "ADC", 2, 5, "IndirectY">>,
      <<41, "AND", 2, 2, "Immediate">>, <<37, "AND", 2, 3, "ZeroPage">>,
      <<53, "AND", 2, 4, "ZeroPageX">>, <<45, "AND", 3, 4, "Absolute">>,
      <<61, "AND", 3, 4, "AbsoluteX">>, <<57, "AND", 3, 4, "AbsoluteY">>,
      <<33, "AND", 2, 6, "IndirectX">>, <<49, "AND", 2, 5, "IndirectY">>,
      <<73, "EOR", 2, 2, "Immediate">>, <<69, "EOR", 2, 3, "ZeroPage">>,
      <<85, "EOR", 2, 4, "ZeroPageX">>, <<77, "EOR", 3, 4, "Absolute">>,
      <<93, "EOR", 3, 4, "AbsoluteX">>, <<89, "EOR", 3, 4, "AbsoluteY">>,
      <<65, "EOR", 2, 6, "IndirectX">>, <<81, "EOR", 2, 5, "IndirectY">>,
      <<10, "ASL", 1, 2, "NoneAddressing">>, <<6, "ASL", 2, 5, "ZeroPage">>,
      <<22, "ASL", 2, 6, "ZeroPageX">>, <<14, "ASL", 3, 6, "Absolute">>,
      <<30, "ASL", 3, 7, "AbsoluteX">>, <<233, "SBC", 2, 2, "Immediate">>,
      <<229, "SBC", 2, 3, "ZeroPage">>, <<245, "SBC", 2, 4, "ZeroPageX">>,
      <<237, "SBC", 3, 4, "Absolute">>, <<253, "SBC", 3, 4, "AbsoluteX">>,
      <<249, "SBC", 3, 4, "AbsoluteY">>, <<225, "SBC", 2, 6, "IndirectX">>,
      <<241, "SBC", 2, 5, "IndirectY">>, <<8, "PHP", 1, 3, "NoneAddressing">>,
      <<40, "PLP", 1, 4, "NoneAddressing">>, <<144, "BCC", 2, 2, "NoneAddressing">>,
      <<176, "BCS", 2, 2, "NoneAddressing">>, <<240, "BEQ", 2, 2, "NoneAddressing">>,
      <<48, "BMI", 2, 2, "NoneAddressing">>, <<208, "BNE", 2, 2, "NoneAddressing">>,
      <<16, "BPL", 2, 2, "NoneAddressing">>, <<80, "BVC", 2, 2, "NoneAddressing">>,
      <<112, "BVS", 2, 2, "NoneAddressing">>, <<36, "BIT", 2, 3, "ZeroPage">>,
      <<44, "BIT", 3, 4, "Absolute">>, <<24, "CLC", 1, 2, "NoneAddressing">>,
      <<216, "CLD", 1, 2, "NoneAddressing">>, <<88, "CLI", 1, 2, "NoneAddressing">>,
      <<184, "CLV", 1, 2, "NoneAddressing">>, <<201, "CMP", 2, 2, "Immediate">>,
      <<197, "CMP", 2, 3, "ZeroPage">>, <<213, "CMP", 2, 4, "ZeroPageX">>,
      <<205, "CMP", 3, 4, "Absolute">>, <<221, "CMP", 3, 4, "AbsoluteX">>,
      <<217, "CMP", 3, 4, "AbsoluteY">>, <<193, "CMP", 2, 6, "IndirectX">>,
      <<209, "CMP", 2, 5, "IndirectY">>, <<224, "CPX", 2, 2, "Immediate">>,
      <<228, "CPX", 2, 3, "ZeroPage">>, <<236, "CPX", 3, 4, "Absolute">>,
      <<192, "CPY", 2, 2, "Immediate">>, <<196, "CPY", 2, 3, "ZeroPage">>,
      <<204, "CPY", 3, 4, "Absolute">>, <<198, "DEC", 2, 5, "ZeroPage">>,
      <<214, "DEC", 2, 6, "ZeroPageX">>, <<206, "DEC", 3, 6, "Absolute">>,
      <<222, "DEC", 3, 7, "AbsoluteX">>, <<202, "DEX", 1, 2, "NoneAddressing">>,
      <<136, "DEY", 1, 2, "NoneAddressing">>, <<230, "INC", 2, 5, "ZeroPage">>,
      <<246, "INC", 2, 6, "ZeroPageX">>, <<238, "INC", 3, 6, "Absolute">>,
      <<254, "INC", 3, 7, "AbsoluteX">>, <<232, "INX", 1, 2, "NoneAddressing">>,
      <<200, "INY", 1, 2, "NoneAddressing">>, <<32, "JSR", 3, 6, "Absolute">>,
      <<96, "RTS", 1, 6, "NoneAddressing">>, <<56, "SEC", 1, 2, "NoneAddressing">>,
      <<248, "SED", 1, 2, "NoneAddressing">>, <<120, "SEI", 1, 2, "NoneAddressing">> }

\* OPCODES_MAP: the table keyed by opcode.
OPCODES_MAP ==
    [op \in {t[1] : t \in OPCODES} |->
        LET t == CHOOSE u \in OPCODES : u[1] = op
        IN  [op |-> t[1], name |-> t[2], bytes |-> t[3], cycles |-> t[4], mode |-> t[5]]]

\* The JMP arms of the match: absolute, and indirect with the page-wrap of
\* the pointer's high byte.
jmp_absolute(m) ==
    LET jump(addr) == commit(addr.m, [addr.m.cpu EXCEPT !.pc = addr.ret])
    IN  jump(mem_read_u16(m, m.cpu.pc))

jmp_indirect(m) ==
    LET jump(indirect_ref) ==
            commit(indirect_ref.m, [indirect_ref.m.cpu EXCEPT !.pc = indirect_ref.ret])
        word(lo, hi) == [m |-> hi.m, ret |-> hi.ret * 256 + lo.ret]
        wrapped(addr, lo) == word(lo, CPU_mem_read(lo.m, BitAnd(addr.ret, 65280)))
        deref(addr) ==
            IF BitAnd(addr.ret, 255) = 255
            THEN wrapped(addr, CPU_mem_read(addr.m, addr.ret))
            ELSE mem_read_u16(addr.m, addr.ret)
        pointer(addr) == jump(deref(addr))
    IN  pointer(mem_read_u16(m, m.cpu.pc))

\* The `match op` of interprect_with_callback.
execute(m, op, mode) ==
    CASE op = 0 -> reset(m)
      [] op = 234 -> m
      [] op = 170 -> tax(m)
      [] op = 168 -> tay(m)
      [] op = 138 -> txa(m)
      [] op = 152 -> tya(m)
      [] op = 186 -> tsx(m)
      [] op = 154 -> txs(m)
      [] op \in {169, 165, 181, 173, 189, 185, 161, 177} -> lda(m, mode)
      [] op \in {162, 166, 182, 174, 190} -> ldx(m, mode)
      [] op \in {160, 164, 180, 172, 188} -> ldy(m, mode)
      [] op \in {133, 149, 141, 157, 153, 129, 145} -> sta(m, mode)
      [] op \in {134, 150, 142} -> stx(m, mode)
      [] op \in {132, 148, 140} -> sty(m, mode)
      [] op \in {105, 101, 117, 109, 125, 121, 97, 113} -> adc(m, mode)
      [] op \in {41, 37, 53, 45, 61, 57, 33, 49} -> and(m, mode)
      [] op \in {73, 69, 85, 77, 93, 89, 65, 81} -> eor(m, mode)
      [] op \in {9, 5, 21, 13, 29, 25, 1, 17} -> ora(m, mode)
      [] op = 10 -> asl_acc(m)
      [] op \in {6, 22, 14, 30} -> asl(m, mode)
      [] op = 74 -> lsr_acc(m)
      [] op \in {70, 86, 78, 94} -> lsr(m, mode)
      [] op = 42 -> rol_acc(m)
      [] op \in {38, 54, 46, 62} -> rol(m, mode)
      [] op = 106 -> ror_acc(m)
      [] op \in {102, 118, 110, 126} -> ror(m, mode)
      [] op = 144 -> bcc(m)
      [] op = 176 -> bcs(m)
      [] op = 240 -> beq(m)
      [] op = 48 -> bmi(m)
      [] op = 208 -> bne(m)
      [] op = 16 -> bpl(m)
      [] op = 80 -> bvc(m)
      [] op = 112 -> bvs(m)
      [] op \in {233, 229, 245, 237, 253, 249, 225, 241} -> sbc(m, mode)
      [] op \in {36, 44} -> bit(m, mode)
      [] op = 24 -> clc(m)
      [] op = 216 -> cld(m)
      [] op = 88 -> cli(m)
      [] op = 184 -> clv(m)
      [] op \in {201, 197, 213, 205, 221, 217, 193, 209} -> cmp(m, mode)
      [] op \in {224, 228, 236} -> cpx(m, mode)
      [] op \in {192, 196, 204} -> cpy(m, mode)
      [] op \in {198, 214, 206, 222} -> dec(m, mode)
      [] op = 202 -> dex(m)
      [] op = 136 -> dey(m)
      [] op \in {230, 246, 238, 254} -> inc(m, mode)
      [] op = 232 -> inx(m)
      [] op = 200 -> iny(m)
      [] op = 8 -> php(m)
      [] op = 72 -> pha(m)
      [] op = 40 -> plp(m)
      [] op = 104 -> pla(m)
      [] op = 32 -> jsr(m, mode)
      [] op = 96 -> rts(m)
      [] op = 64 -> rti(m)
      [] op = 56 -> sec(m)
      [] op = 248 -> sed(m)
      [] op = 120 -> sei(m)
      [] op = 76 -> jmp_absolute(m)
      [] op = 108 -> jmp_indirect(m)
      [] OTHER -> m

\* CPU::interprect_with_callback with the no-op callback of interprect: one
\* instruction.  The opcode is looked up in OPCODES_MAP before it is
\* dispatched, and the lookup panics for an opcode the table does not hold.
\* Nothing in the body drives the PPU or polls its NMI latch.
interprect_with_callback(m) ==
    LET advance(a) == commit(a.m, [a.m.cpu EXCEPT !.pc = a.ret])
        settle(pc_state, code, m2) ==
            IF ~m2.panic /\ pc_state = m2.cpu.pc
            THEN advance(add_u16(m2, m2.cpu.pc, code.bytes - 1))
            ELSE m2
        decode(op, code, m1) == settle(m1.cpu.pc, code, execute(m1, op, code.mode))
        lookup(op, m1) ==
            IF m1.panic THEN m1
            ELSE IF op \notin DOMAIN OPCODES_MAP THEN [m1 EXCEPT !.panic = TRUE]
            ELSE decode(op, OPCODES_MAP[op], m1)
        fetched(f) == lookup(f.ret, advance(add_u16(f.m, f.m.cpu.pc, 1)))
    IN  fetched(CPU_mem_read(m, m.cpu.pc))

\* CPU::run: reset, then interprect.
run(m) == interprect_with_callback(reset(m))

-----------------------------------------------------------------------------
(* Bounds and input sets.                                                  *)

\* The PPU's clock is explored from the states whose cycle counter is at or
\* below this value; a tick may leave the counter above it.
MaxCycles == 682

\* Tick arguments: no cycles, one scanline, two scanlines, and a value that
\* overflows the u16 counter once it holds 341 or more.
TickArgs == {0, 341, 682, 65195}

\* Tick arguments for the interpreter's runs: one scanline at a time.
ScanlineTicks == {SCANLINE_CYCLES_COST}

CtrlData == {0, 128}

BusData == {1, 128}

\* RAM and its mirrors, the PPU registers and mirrors of them, the OAM DMA
\* register, an unmapped address, PRG-ROM in both halves.
BusAddrs ==
    {0, 2047, 2048, 8191,
     8192, 8194, 8196, 8200, 8202, 8204, 16380,
     16404, 16384, 32768, 49152, 65535}

\* RAM and its mirrors, an unmapped address, PRG-ROM in both halves.
MemAddrs == {0, 2047, 2048, 8191, 16384, 32768, 49152, 65535}

\* The number of evenly spaced addresses a claim over an address range is
\* probed at, besides the edges of the range and of its mirrors.
ProbeCount == 96

Spread(lo, hi) == {lo + ((hi - lo) * i) \div ProbeCount : i \in 0..ProbeCount}

\* RAM addresses: the first and last two cells of each 2 KiB mirror, and a
\* spread over the whole range.
RamProbes ==
    {a \in RAM_BEGIN..RAM_END : a % 2048 \in {0, 1, 2046, 2047}}
        \cup Spread(RAM_BEGIN, RAM_END)

\* PRG offsets: the edges of both 16 KiB halves, and a spread over 32 KiB.
PrgProbes == {0, 1, 16382, 16383, 16384, 16385, 32766, 32767} \cup Spread(0, 32767)

Cartridges ==
    { [prg |-> p, chr |-> "chr0", mirroring_type |-> "Horizontal"] :
        p \in {"fill16", "fill32"} }

\* The cartridge the interpreter runs.
ProgramCartridges ==
    { [prg |-> "prog16", chr |-> "chr0", mirroring_type |-> "Horizontal"] }

\* The cartridges CPU::run is called on.
RunCartridges ==
    { [prg |-> p, chr |-> "chr0", mirroring_type |-> "Horizontal"] :
        p \in {"prog16", "adc16"} }

NoOp == [op |-> "new", arg |-> 0, data |-> 0, ret |-> 0]

-----------------------------------------------------------------------------
(* Actions.                                                                *)

\* PPU::tick(c); `last.data` keeps the scanline the call started on.
Tick(c) ==
    /\ ~panicked
    /\ LET r == tick(bus.ppu, c, overflow_checks) IN
         /\ bus' = [bus EXCEPT !.ppu = r.ppu]
         /\ panicked' = r.panic
    /\ last' = [op |-> "tick", arg |-> c, data |-> bus.ppu.scanlines, ret |-> 0]
    /\ UNCHANGED <<cpu, overflow_checks>>

\* PPU::should_nmi(); `last.ret` is 1 for true and 0 for false.
ShouldNmi ==
    /\ ~panicked
    /\ LET r == should_nmi(bus.ppu) IN
         /\ bus' = [bus EXCEPT !.ppu = r.ppu]
         /\ last' = [op |-> "should_nmi", arg |-> 0, data |-> 0, ret |-> Bool01(r.ret)]
    /\ UNCHANGED <<cpu, panicked, overflow_checks>>

\* Bus::mem_read(addr)
MemRead(addr) ==
    /\ ~panicked
    /\ LET r == mem_read(bus, addr) IN
         /\ bus' = r.bus
         /\ panicked' = r.panic
         /\ last' = [op |-> "mem_read", arg |-> addr, data |-> 0, ret |-> r.ret]
    /\ UNCHANGED <<cpu, overflow_checks>>

\* Bus::mem_write(addr, data)
MemWrite(addr, data) ==
    /\ ~panicked
    /\ LET r == mem_write(bus, addr, data) IN
         /\ bus' = r.bus
         /\ panicked' = r.panic
    /\ last' = [op |-> "mem_write", arg |-> addr, data |-> data, ret |-> 0]
    /\ UNCHANGED <<cpu, overflow_checks>>

\* PPUSTATUS::set_sprite_overflow, set_sprite_zero_hit and set_vertical_blank
\* on the PPU's status register; `last.arg` is 1 for true and 0 for false.
SetSpriteOverflow(flag) ==
    /\ ~panicked
    /\ bus' = [bus EXCEPT !.ppu.status_register = set_sprite_overflow(@, flag)]
    /\ last' = [op |-> "set_sprite_overflow", arg |-> Bool01(flag), data |-> 0, ret |-> 0]
    /\ UNCHANGED <<cpu, panicked, overflow_checks>>

SetSpriteZeroHit(flag) ==
    /\ ~panicked
    /\ bus' = [bus EXCEPT !.ppu.status_register = set_sprite_zero_hit(@, flag)]
    /\ last' = [op |-> "set_sprite_zero_hit", arg |-> Bool01(flag), data |-> 0, ret |-> 0]
    /\ UNCHANGED <<cpu, panicked, overflow_checks>>

SetVerticalBlank(flag) ==
    /\ ~panicked
    /\ bus' = [bus EXCEPT !.ppu.status_register = set_vertical_blank(@, flag)]
    /\ last' = [op |-> "set_vertical_blank", arg |-> Bool01(flag), data |-> 0, ret |-> 0]
    /\ UNCHANGED <<cpu, panicked, overflow_checks>>

\* PPUSTATUS::reset_vertical_blank
ResetVerticalBlank ==
    /\ ~panicked
    /\ bus' = [bus EXCEPT !.ppu.status_register = reset_vertical_blank(@)]
    /\ last' = [op |-> "reset_vertical_blank", arg |-> 0, data |-> 0, ret |-> 0]
    /\ UNCHANGED <<cpu, panicked, overflow_checks>>

\* PPUADDR::reset_latch
AddrResetLatch ==
    /\ ~panicked
    /\ bus' = [bus EXCEPT !.ppu.address_register = PPUADDR_reset_latch(@)]
    /\ last' = [op |-> "addr_reset_latch", arg |-> 0, data |-> 0, ret |-> 0]
    /\ UNCHANGED <<cpu, panicked, overflow_checks>>

\* PPUSCROLL::reset_latch
ScrollResetLatch ==
    /\ ~panicked
    /\ bus' = [bus EXCEPT !.ppu.scroll_register = PPUSCROLL_reset_latch(@)]
    /\ last' = [op |-> "scroll_reset_latch", arg |-> 0, data |-> 0, ret |-> 0]
    /\ UNCHANGED <<cpu, panicked, overflow_checks>>

\* PPUDATA::write_data(data)
WriteData(data) ==
    /\ ~panicked
    /\ bus' = [bus EXCEPT !.ppu.data_register = write_data(@, data)]
    /\ last' = [op |-> "write_data", arg |-> 0, data |-> data, ret |-> 0]
    /\ UNCHANGED <<cpu, panicked, overflow_checks>>

\* mem_write_u16(addr, data) on the CPU, forwarded to the bus.
MemWriteU16(addr, data) ==
    /\ ~panicked
    /\ \E m \in {mem_write_u16(Machine(cpu, bus, overflow_checks), addr, data)} :
         /\ cpu' = m.cpu
         /\ bus' = m.bus
         /\ panicked' = m.panic
    /\ last' = [op |-> "mem_write_u16", arg |-> addr, data |-> data, ret |-> 0]
    /\ UNCHANGED overflow_checks

\* CPU::interprect_with_callback: one instruction.  `last.arg` is the opcode
\* fetched and `last.data` the program counter it was fetched from.
Step ==
    /\ ~panicked
    /\ \E m \in {interprect_with_callback(Machine(cpu, bus, overflow_checks))} :
         /\ cpu' = m.cpu
         /\ bus' = m.bus
         /\ panicked' = m.panic
    /\ last' = [op |-> "step", arg |-> mem_read(bus, cpu.pc).ret, data |-> cpu.pc,
                ret |-> 0]
    /\ UNCHANGED overflow_checks

\* CPU::reset
Reset ==
    /\ ~panicked
    /\ \E m \in {reset(Machine(cpu, bus, overflow_checks))} :
         /\ cpu' = m.cpu
         /\ bus' = m.bus
         /\ panicked' = m.panic
    /\ last' = [op |-> "reset", arg |-> 0, data |-> cpu.pc, ret |-> 0]
    /\ UNCHANGED overflow_checks

\* CPU::run: reset, then interprect.  `last.data` is the program counter
\* before the call.
Run ==
    /\ ~panicked
    /\ \E m \in {run(Machine(cpu, bus, overflow_checks))} :
         /\ cpu' = m.cpu
         /\ bus' = m.bus
         /\ panicked' = m.panic
    /\ last' = [op |-> "run", arg |-> 0, data |-> cpu.pc, ret |-> 0]
    /\ UNCHANGED overflow_checks

-----------------------------------------------------------------------------
(* Specifications.                                                         *)

\* The state after Bus::new(cartridge) and CPU::new(bus).
InitBus ==
    /\ \E c \in Cartridges : bus = Bus_new(c)
    /\ cpu = CPU_new
    /\ last = NoOp
    /\ panicked = FALSE
    /\ overflow_checks \in BOOLEAN

\* The PPU's clock: ticks, NMI polls and CTRL writes in any interleaving.
NextPPU ==
    \/ \E c \in TickArgs : bus.ppu.cycles <= MaxCycles /\ Tick(c)
    \/ ShouldNmi
    \/ \E d \in CtrlData : MemWrite(PPU_REG_CTRL, d)

SpecPPU == InitBus /\ [][NextPPU]_vars

\* The registers' own setters, called directly, next to the port writes that
\* move the two latches.
WordAddrs == {16, 2047, 8191, 65535}
WordData == {4660}
RegisterData == {1}

NextRegisters ==
    \/ \E f \in BOOLEAN : SetSpriteOverflow(f)
    \/ \E f \in BOOLEAN : SetSpriteZeroHit(f)
    \/ \E f \in BOOLEAN : SetVerticalBlank(f)
    \/ ResetVerticalBlank
    \/ AddrResetLatch
    \/ ScrollResetLatch
    \/ \E d \in RegisterData : WriteData(d)
    \/ \E a \in WordAddrs, d \in WordData : last.op = "new" /\ MemWriteU16(a, d)
    \/ \E d \in RegisterData : MemWrite(PPU_REG_ADDR, d)
    \/ \E d \in RegisterData : MemWrite(PPU_REG_SCROLL, d)

SpecRegisters == InitBus /\ [][NextRegisters]_vars

\* The bus decoder: reads and writes over the whole address map.
NextBus ==
    \/ \E a \in BusAddrs : MemRead(a)
    \/ \E a \in BusAddrs, d \in BusData : MemWrite(a, d)

SpecBus == InitBus /\ [][NextBus]_vars

\* The memory side of the decoder: RAM, PRG-ROM and the unmapped range.
NextMem ==
    \/ \E a \in MemAddrs : MemRead(a)
    \/ \E a \in MemAddrs, d \in BusData : MemWrite(a, d)

SpecMem == InitBus /\ [][NextMem]_vars

\* The state after CPU::new(Bus::new(cartridge)) for the program cartridge.
InitCPU ==
    /\ \E c \in ProgramCartridges : bus = Bus_new(c)
    /\ cpu = CPU_new
    /\ last = NoOp
    /\ panicked = FALSE
    /\ overflow_checks \in BOOLEAN

\* The interpreter: instructions and resets, with the PPU's clock advanced
\* between them by whoever owns the PPU.
NextCPU ==
    \/ Step
    \/ Reset
    \/ \E c \in ScanlineTicks : Tick(c)

SpecCPU == InitCPU /\ [][NextCPU]_vars

-----------------------------------------------------------------------------
(* Claims about the PPU clock (checked under SpecPPU).                     *)

\* A completed instruction: the opcode was found in the table and nothing
\* panicked.
IsStep == last'.op = "step" /\ ~panicked' /\ last'.arg \in DOMAIN OPCODES_MAP

\* C1: every CPU step, after executing the instruction and settling PC,
\* advances the PPU by tick(base cycles x 3) of the opcode: the PPU's cycle
\* and scanline counters after the step are those that tick yields from the
\* counters before it.
C1_StepTicksPPU ==
    [][IsStep =>
        LET t == tick(bus.ppu, 3 * OPCODES_MAP[last'.arg].cycles, overflow_checks).ppu
        IN  /\ bus'.ppu.cycles = t.cycles
            /\ bus'.ppu.scanlines = t.scanlines]_vars

\* The word at the NMI vector 0xFFFA/0xFFFB.
NmiVector == mem_read(bus, 65531).ret * 256 + mem_read(bus, 65530).ret

\* C2: an NMI pending at the end of a step is delivered before the next
\* opcode is fetched: the latch is consumed, P is pushed with B clear and U
\* set (it is the byte just above the new stack pointer), I is set and PC is
\* loaded from 0xFFFA/0xFFFB.  (Scanlines below 261: no tick of one
\* instruction's cycles can end the frame and withdraw the NMI.)
C2_NmiServiced ==
    [][(IsStep /\ bus.ppu.should_nmi_flag /\ bus.ppu.scanlines < 261) =>
        LET pushed == At(bus'.vram, STACK_BOTTOM_LOC + ((cpu'.sp + 1) % 256))
        IN  /\ ~bus'.ppu.should_nmi_flag
            /\ cpu'.pc = NmiVector
            /\ contains(cpu'.status, INTERRUPT_DISABLE)
            /\ ~contains(pushed, BREAK) /\ contains(pushed, UNUSED)]_vars

IsTick == last'.op = "tick" /\ ~panicked'

\* C3: after any number of tick calls with 16-bit arguments, the cycle
\* counter is below 341 and the scanline counter is below 262.
C3_CyclesScanlineWrap ==
    bus.ppu.cycles < SCANLINE_CYCLES_COST /\ bus.ppu.scanlines < SCANLINE_PER_FRAME

\* C4: a tick that moves the PPU onto scanline 241 sets STATUS.vblank, clears
\* sprite-zero-hit and latches the NMI exactly when CTRL bit 7 is set; a tick
\* that does not enter scanline 241 never sets the NMI latch.
C4_VblankEntry ==
    [][ IsTick =>
          IF bus.ppu.scanlines # SCANLINE_TRIGGER_NMI
             /\ bus'.ppu.scanlines = SCANLINE_TRIGGER_NMI
          THEN /\ contains(bus'.ppu.status_register, VBLANK)
               /\ ~contains(bus'.ppu.status_register, SPR_ZERO_HIT)
               /\ bus'.ppu.should_nmi_flag = contains(bus.ppu.ctrl_register, GEN_NMI_VBI)
          ELSE bus'.ppu.should_nmi_flag => bus.ppu.should_nmi_flag ]_vars

C4_Witness ==
    /\ last.op = "tick" /\ last.data = 240
    /\ bus.ppu.scanlines = SCANLINE_TRIGGER_NMI
    /\ bus.ppu.should_nmi_flag
    /\ contains(bus.ppu.status_register, VBLANK)

\* C5: a tick that would move the scanline counter to 262 resets it to 0,
\* clears STATUS.vblank and sprite-zero-hit, and drops a pending NMI.
C5_FrameEnd ==
    [][ (IsTick /\ bus.ppu.scanlines = SCANLINE_PER_FRAME - 1
                /\ (bus.ppu.cycles + last'.arg) % 65536 >= SCANLINE_CYCLES_COST)
        => /\ bus'.ppu.scanlines = 0
           /\ ~contains(bus'.ppu.status_register, VBLANK)
           /\ ~contains(bus'.ppu.status_register, SPR_ZERO_HIT)
           /\ ~bus'.ppu.should_nmi_flag ]_vars

C5_Witness ==
    /\ last.op = "tick" /\ last.data = SCANLINE_PER_FRAME - 1
    /\ bus.ppu.scanlines = 0
    /\ contains(bus.ppu.ctrl_register, GEN_NMI_VBI)
    /\ ~bus.ppu.should_nmi_flag

\* C6: should_nmi returns the NMI latch and clears it, changing nothing else;
\* the latch is set again only by a tick that enters scanline 241 with CTRL
\* bit 7 set.
C6_NmiOneShot ==
    [][ /\ last'.op = "should_nmi" =>
              /\ last'.ret = Bool01(bus.ppu.should_nmi_flag)
              /\ bus' = [bus EXCEPT !.ppu.should_nmi_flag = FALSE]
        /\ (~bus.ppu.should_nmi_flag /\ bus'.ppu.should_nmi_flag) =>
              /\ last'.op = "tick"
              /\ bus.ppu.scanlines = SCANLINE_TRIGGER_NMI - 1
              /\ bus'.ppu.scanlines = SCANLINE_TRIGGER_NMI
              /\ contains(bus.ppu.ctrl_register, GEN_NMI_VBI) ]_vars

C6_Witness ==
    /\ last.op = "should_nmi"
    /\ last.ret = 1
    /\ ~bus.ppu.should_nmi_flag
    /\ bus.ppu.scanlines >= SCANLINE_TRIGGER_NMI

-----------------------------------------------------------------------------
(* Claims about the bus decoder (checked under SpecBus and SpecMem).        *)

\* C7: a read of STATUS (0x2002) succeeds, returns the status bits (vblank,
\* sprite-zero hit, sprite overflow), clears STATUS.vblank and resets the
\* write latch of ADDR and SCROLL.
C7_StatusRead ==
    [][ (last'.op = "mem_read" /\ last'.arg = PPU_REG_STATUS) =>
          /\ ~panicked'
          /\ BitAnd(last'.ret, VBLANK + SPR_ZERO_HIT + SPR_OVERFLOW)
               = BitAnd(bus.ppu.status_register, VBLANK + SPR_ZERO_HIT + SPR_OVERFLOW)
          /\ ~contains(bus'.ppu.status_register, VBLANK)
          /\ bus'.ppu.address_register.write_hi
          /\ bus'.ppu.scroll_register.latch ]_vars

\* C8: an access at an address in 0x2008..0x3FFF has the result and the
\* effect of the same access at (address & 0x2007).
C8_RegisterMirror ==
    [][ (last'.op \in {"mem_read", "mem_write"}
         /\ last'.arg \in PPU_REG_MIRROR_BEGIN..PPU_REG_MIRROR_END) =>
          LET a == BitAnd(last'.arg, 8199)
              r == mem_read(bus, a)
              w == mem_write(bus, a, last'.data)
          IN  IF last'.op = "mem_read"
              THEN bus' = r.bus /\ panicked' = r.panic /\ last'.ret = r.ret
              ELSE bus' = w.bus /\ panicked' = w.panic ]_vars

\* The cells of a byte array that differ between two states of it.
Changed(a1, a2) ==
    {i \in DOMAIN a1.cells \cup DOMAIN a2.cells : At(a1, i) # At(a2, i)}

\* C9: every RAM address reads the cell at (address & 0x07FF), and a write in
\* 0x0000..0x1FFF changes that cell and nothing else.
C9_RamMirror ==
    /\ [](\A a \in RamProbes :
            LET r == mem_read(bus, a)
                m == mem_read(bus, BitAnd(a, 2047))
            IN ~r.panic /\ ~m.panic /\ r.ret = m.ret /\ r.bus = bus)
    /\ [][ (last'.op = "mem_write" /\ last'.arg \in RAM_BEGIN..RAM_END) =>
             /\ ~panicked'
             /\ At(bus'.vram, BitAnd(last'.arg, 2047)) = last'.data
             /\ Changed(bus.vram, bus'.vram) \subseteq {BitAnd(last'.arg, 2047)}
             /\ bus'.vram.len = bus.vram.len
             /\ bus'.ppu = bus.ppu
             /\ bus'.prg_rom = bus.prg_rom ]_vars

C9_Witness ==
    /\ last.op = "mem_write" /\ last.arg = 8191 /\ last.data = 128
    /\ mem_read(bus, 2047).ret = 128
    /\ mem_read(bus, 4095).ret = 128
    /\ mem_read(bus, 0).ret = 1

\* C10: a 16 KiB PRG-ROM is read at 0x8000+k and at 0xC000+k as prg[k]; a
\* 32 KiB PRG-ROM is read at 0x8000+k as prg[k], without mirroring.
C10_PrgMirror ==
    /\ PrgLen(bus.prg_rom) = 16384 =>
         \A k \in {j \in PrgProbes : j < 16384} :
            LET lo == mem_read(bus, 32768 + k)
                hi == mem_read(bus, 49152 + k)
            IN /\ ~lo.panic /\ ~hi.panic
               /\ lo.ret = PrgAt(bus.prg_rom, k)
               /\ hi.ret = PrgAt(bus.prg_rom, k)
    /\ PrgLen(bus.prg_rom) = 32768 =>
         \A k \in PrgProbes :
            LET r == mem_read(bus, 32768 + k)
            IN ~r.panic /\ r.ret = PrgAt(bus.prg_rom, k)

C10_Witness ==
    /\ last.op = "mem_read" /\ last.arg = 49152 /\ ~panicked
    /\ PrgLen(bus.prg_rom) = 16384
    /\ last.ret = PrgAt(bus.prg_rom, 0)

-----------------------------------------------------------------------------
(* The PPU's ports seen from the bus (checked under SpecPort).             *)

\* Addresses read: every PPU register, OAM DMA, and a mirror of DATA.
PortReadAddrs ==
    {PPU_REG_CTRL, PPU_REG_MASK, PPU_REG_OAMADDR, PPU_REG_OAMDATA, PPU_REG_SCROLL,
     PPU_REG_ADDR, PPU_REG_DATA, PPU_REG_OAMDMA, 8207}

\* Addresses written: STATUS, the address and data ports, PRG-ROM at both ends.
PortWriteAddrs == {PPU_REG_STATUS, PPU_REG_ADDR, PPU_REG_DATA, PRG_BEGIN, PRG_END}

\* Bytes written: as the high byte of the VRAM address they select the
\* nametables (0x20) and the range 0x3000..0x3EFF.
PortData == {32, 48}

NextPort ==
    \/ \E a \in PortReadAddrs : MemRead(a)
    \/ \E a \in PortWriteAddrs, d \in PortData : MemWrite(a, d)

SpecPort == InitBus /\ [][NextPort]_vars

\* C11: accesses in the wrong direction fail and leave the bus, the PPU and
\* the ROM unchanged: a write to STATUS, a write to 0x8000..0xFFFF, a read
\* of CTRL, MASK, OAMADDR, SCROLL, ADDR or OAMDMA; reads of OAMDATA and of
\* DATA do not fail.
C11_WrongDirection ==
    [][/\ (last'.op = "mem_write"
            /\ (last'.arg = PPU_REG_STATUS \/ last'.arg \in PRG_BEGIN..PRG_END))
          => (panicked' /\ bus' = bus)
       /\ (last'.op = "mem_read"
            /\ last'.arg \in {PPU_REG_CTRL, PPU_REG_MASK, PPU_REG_OAMADDR,
                              PPU_REG_SCROLL, PPU_REG_ADDR, PPU_REG_OAMDMA})
          => (panicked' /\ bus' = bus)
       /\ (last'.op = "mem_read" /\ last'.arg \in {PPU_REG_OAMDATA, PPU_REG_DATA})
          => ~panicked']_vars

-----------------------------------------------------------------------------
(* Claims about the interpreter (checked under SpecCPU).                   *)

\* The word at the reset vector 0xFFFC/0xFFFD.
ResetVector == mem_read(bus, 65533).ret * 256 + mem_read(bus, 65532).ret

\* C12: reset, from any CPU state, sets A = X = Y = 0, status = 0b0010_0100
\* (U and I set, every other flag clear), SP = 0xFD and PC = the word at
\* 0xFFFC/0xFFFD, and leaves RAM, VRAM and all other memory unchanged.
C12_Reset ==
    [][(last'.op = "reset" /\ ~panicked') =>
        /\ cpu'.acc = 0 /\ cpu'.rx = 0 /\ cpu'.ry = 0
        /\ cpu'.status = 36
        /\ cpu'.sp = 253
        /\ cpu'.pc = ResetVector
        /\ bus' = bus]_vars

-----------------------------------------------------------------------------
(* Decoding one opcode byte (checked under SpecDecode): the host stores a  *)
(* byte at address 0 of the RAM and the CPU, fresh from CPU::new with      *)
(* pc = 0, executes it.                                                    *)

OpcodeBytes == 0..255

NextDecode ==
    \/ \E op \in OpcodeBytes : last.op = "new" /\ MemWrite(0, op)
    \/ last.op = "mem_write" /\ Step

SpecDecode == InitCPU /\ [][NextDecode]_vars

\* The 151 opcode bytes of the documented 6502 instruction set; they are the
\* bytes the `match op` of the interpreter names.
DocumentedOpcodes ==
    { 
      0, 1, 5, 6, 8, 9, 10, 13, 14, 16, 17, 21, 22, 24, 25, 29,
      30, 32, 33, 36, 37, 38, 40, 41, 42, 44, 45, 46, 48, 49, 53, 54,
      56, 57, 61, 62, 64, 65, 69, 70, 72, 73, 74, 76, 77, 78, 80, 81,
      85, 86, 88, 89, 93, 94, 96, 97, 101, 102, 104, 105, 106, 108, 109, 110,
      112, 113, 117, 118, 120, 121, 125, 126, 129, 132, 133, 134, 136, 138, 140, 141,
      142, 144, 145, 148, 149, 150, 152, 153, 154, 157, 160, 161, 162, 164, 165, 166,
      168, 169, 170, 172, 173, 174, 176, 177, 180, 181, 182, 184, 185, 186, 188, 189,
      190, 192, 193, 196, 197, 198, 200, 201, 202, 204, 205, 206, 208, 209, 213, 214,
      216, 217, 221, 222, 224, 225, 228, 229, 230, 232, 233, 234, 236, 237, 238, 240,
      241, 245, 246, 248, 249, 253, 254 }

\* C13: the opcode lookup of a step succeeds for every documented opcode
\* byte the interpreter dispatches on, and fails only for the bytes outside
\* the documented instruction set.
C13_OpcodeLookup ==
    last.op = "step" => (panicked <=> last.arg \notin DocumentedOpcodes)

-----------------------------------------------------------------------------
(* CPU::run (checked under SpecRun). *)

\* The state after CPU::new(Bus::new(cartridge)) for the cartridges run is
\* called on.
InitRun ==
    /\ \E c \in RunCartridges : bus = Bus_new(c)
    /\ cpu = CPU_new
    /\ last = NoOp
    /\ panicked = FALSE
    /\ overflow_checks \in BOOLEAN

\* Calls of run and reset, with the PPU's clock advanced between them.
NextRun ==
    \/ Run
    \/ Reset
    \/ \E c \in ScanlineTicks : Tick(c)

SpecRun == InitRun /\ [][NextRun]_vars

\* C14: run() resets the CPU and executes successive instructions from the
\* reset vector until a BRK is reached; when it returns the registers hold
\* what the instructions before the BRK produced: for the program
\* 69 10 69 20 00 that is A = 0x30 with C, V, Z and N clear.
C14_RunToBrk ==
    (last.op = "run" /\ ~panicked /\ bus.prg_rom = "adc16") =>
        /\ cpu.acc = 48
        /\ ~contains(cpu.status, CARRY) /\ ~contains(cpu.status, OVERFLOW)
        /\ ~contains(cpu.status, ZERO) /\ ~contains(cpu.status, NEGATIVE)

\* The word at the IRQ/BRK vector 0xFFFE/0xFFFF.
BrkVector == mem_read(bus, 65535).ret * 256 + mem_read(bus, 65534).ret

\* C15: a step that executes BRK (opcode 0x00) at address p pushes the
\* address after the fetch plus one (p + 2), high byte then low byte, then
\* pushes P | 0x30, sets I in the live status and loads PC from 0xFFFE/0xFFFF;
\* A, X and Y are unchanged and SP decreases by 3.
C15_Brk ==
    [][(last'.op = "step" /\ last'.arg = 0) =>
         /\ ~panicked'
         /\ cpu'.sp = (cpu.sp + 253) % 256
         /\ At(bus'.vram, STACK_BOTTOM_LOC + cpu.sp) = ((cpu.pc + 2) % 65536) \div 256
         /\ At(bus'.vram, STACK_BOTTOM_LOC + ((cpu.sp + 255) % 256)) = (cpu.pc + 2) % 256
         /\ At(bus'.vram, STACK_BOTTOM_LOC + ((cpu.sp + 254) % 256)) = BitOr(cpu.status, 48)
         /\ cpu'.status = insert(cpu.status, INTERRUPT_DISABLE)
         /\ cpu'.pc = BrkVector
         /\ cpu'.acc = cpu.acc /\ cpu'.rx = cpu.rx /\ cpu'.ry = cpu.ry]_vars

-----------------------------------------------------------------------------
(* ADC and SBC on every accumulator, operand and carry (checked under
   SpecAlu). *)

\* The opcodes of ADC #imm and SBC #imm.
ADC_IMMEDIATE == 105
SBC_IMMEDIATE == 233

AluOpcodes == {ADC_IMMEDIATE, SBC_IMMEDIATE}
AluBytes == 0..255

\* The processor status before the instruction: carry clear, or carry set
\* together with an overflow flag left by an earlier instruction.
AluStatus == { UNUSED, UNUSED + CARRY + OVERFLOW }

\* The CPU with A and P loaded and a two-byte instruction written at RAM 0,
\* where CPU::new leaves the program counter.
InitAlu ==
    /\ \E cart \in ProgramCartridges, op \in AluOpcodes, operand \in AluBytes :
         bus = [Bus_new(cart) EXCEPT !.vram = Put(Put(@, 0, op), 1, operand)]
    /\ \E a \in AluBytes, p \in AluStatus :
         cpu = [CPU_new EXCEPT !.acc = a, !.status = p]
    /\ last = NoOp
    /\ panicked = FALSE
    /\ overflow_checks = TRUE

NextAlu == last.op = "new" /\ Step

SpecAlu == InitAlu /\ [][NextAlu]_vars

\* The carry as a number.
CarryOf(c) == IF contains(c.status, CARRY) THEN 1 ELSE 0

\* C16: for every A, M and carry C, ADC yields A' = (A + M + C) mod 256,
\* C' = (A + M + C > 0xFF) and V' = ((M xor A') and (A xor A') and 0x80) # 0,
\* with A the accumulator before the addition.
C16_Adc ==
    [][(last'.op = "step" /\ last'.arg = ADC_IMMEDIATE) =>
         LET A == cpu.acc
             M == At(bus.vram, 1)
             sum == cpu.acc + At(bus.vram, 1) + CarryOf(cpu)
         IN  /\ ~panicked'
             /\ cpu'.acc = sum % 256
             /\ contains(cpu'.status, CARRY) <=> (sum > 255)
             /\ contains(cpu'.status, OVERFLOW) <=>
                  (BitAnd(BitAnd(BitXor(M, cpu'.acc), BitXor(A, cpu'.acc)), 128) # 0)]_vars

\* 0x80 + 0x80 + 1 has been added: A = 1 with carry and overflow set.
C16_Witness ==
    /\ last.op = "step" /\ last.arg = ADC_IMMEDIATE /\ ~panicked
    /\ At(bus.vram, 1) = 128 /\ cpu.acc = 1
    /\ contains(cpu.status, CARRY) /\ contains(cpu.status, OVERFLOW)

\* C17: after every ADC and every SBC, Z equals (A' = 0) and N equals bit 7
\* of A', the result written to the accumulator.
C17_AluZN ==
    (last.op = "step" /\ last.arg \in AluOpcodes) =>
        /\ ~panicked
        /\ contains(cpu.status, ZERO) <=> (cpu.acc = 0)
        /\ contains(cpu.status, NEGATIVE) <=> (cpu.acc >= 128)

\* C18: for every A, M and carry C, SBC with operand M yields
\* A' = (A - M - (1 - C)) mod 256, C' = 1 iff no borrow occurred, and the V
\* that ADC yields for the operand ~M mod 256.
C18_Sbc ==
    [][(last'.op = "step" /\ last'.arg = SBC_IMMEDIATE) =>
         LET A == cpu.acc
             M == At(bus.vram, 1)
             diff == cpu.acc - At(bus.vram, 1) - (1 - CarryOf(cpu))
         IN  /\ ~panicked'
             /\ cpu'.acc = diff % 256
             /\ contains(cpu'.status, CARRY) <=> (diff >= 0)
             /\ contains(cpu'.status, OVERFLOW) <=>
                  (BitAnd(BitAnd(BitXor(255 - M, cpu'.acc), BitXor(A, cpu'.acc)), 128) # 0)
             /\ cpu'.acc = (A + (255 - M) + CarryOf(cpu)) % 256
             /\ contains(cpu'.status, CARRY) <=> (A + (255 - M) + CarryOf(cpu) > 255)]_vars

\* 0x00 - 0x80 with the carry set (no borrow in): A = 0x80, a borrow out and
\* a signed overflow.
C18_Witness ==
    /\ last.op = "step" /\ last.arg = SBC_IMMEDIATE /\ ~panicked
    /\ At(bus.vram, 1) = 128 /\ cpu.acc = 128
    /\ ~contains(cpu.status, CARRY) /\ contains(cpu.status, OVERFLOW)

-----------------------------------------------------------------------------
(* Branches on every offset byte and flag combination (checked under
   SpecBranch). *)

\* The opcodes of BPL, BMI, BVC, BVS, BCC, BCS, BNE and BEQ.
BranchOpcodes == {16, 48, 80, 112, 144, 176, 208, 240}
BranchOffsets == 0..255

\* Every combination of the flags N, V, Z and C.
BranchStatus ==
    { UNUSED + n + v + z + c :
        n \in {0, NEGATIVE}, v \in {0, OVERFLOW}, z \in {0, ZERO}, c \in {0, CARRY} }

\* The CPU with P loaded and a branch instruction written at RAM 0, where
\* CPU::new leaves the program counter.
InitBranch ==
    /\ \E cart \in ProgramCartridges, op \in BranchOpcodes, offset \in BranchOffsets :
         bus = [Bus_new(cart) EXCEPT !.vram = Put(Put(@, 0, op), 1, offset)]
    /\ \E p \in BranchStatus : cpu = [CPU_new EXCEPT !.status = p]
    /\ last = NoOp
    /\ panicked = FALSE
    /\ overflow_checks \in BOOLEAN

NextBranch == last.op = "new" /\ Step

SpecBranch == InitBranch /\ [][NextBranch]_vars

\* The predicate of a branch opcode on the flags.
BranchTaken(op, status) ==
    CASE op = 16  -> ~contains(status, NEGATIVE)
      [] op = 48  -> contains(status, NEGATIVE)
      [] op = 80  -> ~contains(status, OVERFLOW)
      [] op = 112 -> contains(status, OVERFLOW)
      [] op = 144 -> ~contains(status, CARRY)
      [] op = 176 -> contains(status, CARRY)
      [] op = 208 -> ~contains(status, ZERO)
      [] op = 240 -> contains(status, ZERO)

\* An offset byte as a signed 8-bit number.
Signed8(offset) == IF offset >= 128 THEN offset - 256 ELSE offset

\* C19: a branch opcode at address p with offset byte o leaves PC at
\* (p + 2 + signed8(o)) mod 2^16 when its predicate holds and at p + 2 when
\* it does not; registers, flags, SP and memory are unchanged.
C19_Branch ==
    [][(last'.op = "step" /\ last'.arg \in BranchOpcodes) =>
         /\ ~panicked'
         /\ cpu'.pc = IF BranchTaken(last'.arg, cpu.status)
                      THEN (cpu.pc + 2 + Signed8(At(bus.vram, cpu.pc + 1)) + 65536) % 65536
                      ELSE cpu.pc + 2
         /\ cpu' = [cpu EXCEPT !.pc = cpu'.pc]
         /\ bus' = bus]_vars

-----------------------------------------------------------------------------
(* JMP (ind), checked under SpecDecode. *)

\* The 16-bit operand of the instruction at the program counter.
JmpPointer == mem_read(bus, cpu.pc + 2).ret * 256 + mem_read(bus, cpu.pc + 1).ret

\* C20: a step that executes JMP (ind), opcode 0x6C, with pointer ptr sets PC
\* to the word whose low byte is read8(ptr) and whose high byte is
\* read8(ptr + 1), or read8(ptr & 0xFF00) when the low byte of ptr is 0xFF.
C20_JmpIndirect ==
    [][(last'.op = "step" /\ last'.arg = 108) =>
         /\ ~panicked'
         /\ cpu'.pc =
              mem_read(bus, IF JmpPointer % 256 = 255
                            THEN JmpPointer - 255
                            ELSE JmpPointer + 1).ret * 256
              + mem_read(bus, JmpPointer).ret]_vars

-----------------------------------------------------------------------------
(* JSR, RTS and JMP on a range of operands and stack pointers (checked under
   SpecJump). *)

\* The opcodes of JSR abs, RTS and JMP abs.
JSR_ABSOLUTE == 32
RTS_IMPLIED == 96
JMP_ABSOLUTE == 76

JumpOpcodes == {JSR_ABSOLUTE, JMP_ABSOLUTE}

\* The 16-bit operands: the address of the instruction's own first operand
\* byte (1), and addresses in RAM after the instruction.
MaxTarget == 40
JumpTargets == 1..MaxTarget

\* The stack pointers before the call, some of them wrapping in page 1.
JumpStackPointers == {0, 1, 2, 253, 255}

\* The CPU with SP loaded and, at RAM 0 where CPU::new leaves the program
\* counter, a jump or call to `target`, where an RTS waits.
InitJump ==
    /\ \E cart \in ProgramCartridges, op \in JumpOpcodes, target \in JumpTargets :
         bus = [Bus_new(cart) EXCEPT
                  !.vram = IF target >= 3
                           THEN Put(Put(Put(Put(@, 0, op), 1, target), 2, 0),
                                    target, RTS_IMPLIED)
                           ELSE Put(Put(Put(@, 0, op), 1, target), 2, 0)]
    /\ \E s \in JumpStackPointers : cpu = [CPU_new EXCEPT !.sp = s]
    /\ last = NoOp
    /\ panicked = FALSE
    /\ overflow_checks \in BOOLEAN

\* The instruction at RAM 0, then the instruction it transfers to.
NextJump == (last.op = "new" \/ last.arg \in JumpOpcodes) /\ Step

SpecJump == InitJump /\ [][NextJump]_vars

\* The 16-bit operand of the instruction at the program counter.
Operand16 == mem_read(bus, cpu.pc + 2).ret * 256 + mem_read(bus, cpu.pc + 1).ret

\* C21: JSR at address p pushes p + 2, high byte then low byte, and sets PC
\* to its operand; an RTS executed right after it sets PC to p + 3 and
\* restores SP to its value before the JSR.
C21_JsrRts ==
    [][/\ (last'.op = "step" /\ last'.arg = JSR_ABSOLUTE) =>
            /\ ~panicked'
            /\ At(bus'.vram, STACK_BOTTOM_LOC + cpu.sp) = (cpu.pc + 2) \div 256
            /\ At(bus'.vram, STACK_BOTTOM_LOC + ((cpu.sp + 255) % 256)) = (cpu.pc + 2) % 256
            /\ cpu'.sp = (cpu.sp + 254) % 256
            /\ cpu'.pc = Operand16
       /\ (last'.op = "step" /\ last'.arg = RTS_IMPLIED
             /\ last.op = "step" /\ last.arg = JSR_ABSOLUTE) =>
            /\ ~panicked'
            /\ cpu'.pc = last.data + 3
            /\ cpu'.sp = (cpu.sp + 2) % 256]_vars

\* The opcodes that transfer control: BRK, JSR, RTI, RTS, JMP and the
\* branches.
ControlTransfers == {0, 32, 64, 96, 76, 108} \cup BranchOpcodes

\* C26: after a step whose opcode at address p has table length L, PC is
\* p + L when the instruction is not a control transfer, and PC is the 16-bit
\* operand when it is JMP absolute or JSR, for every operand value, the
\* address p + 1 of the instruction's own first operand byte included.
C26_ProgramCounter ==
    [][/\ (last'.op = "step" /\ last'.arg \in DocumentedOpcodes \ ControlTransfers) =>
            /\ ~panicked'
            /\ cpu'.pc = cpu.pc + OPCODES_MAP[last'.arg].bytes
       /\ (last'.op = "step" /\ last'.arg \in {JMP_ABSOLUTE, JSR_ABSOLUTE}) =>
            /\ ~panicked'
            /\ cpu'.pc = Operand16]_vars

-----------------------------------------------------------------------------
(* The live status bits U and B across instructions, PHP and PLP included
   (checked under SpecStatus). *)

\* The opcodes of PHP, PLP, LDA #imm and STA abs.
PHP_IMPLIED == 8
PLP_IMPLIED == 40
LDA_IMMEDIATE == 169
STA_ABSOLUTE == 141

\* The instructions of the opcode table that leave the program counter to
\* the step.
StraightOpcodes ==
    DOMAIN OPCODES_MAP \ ({0, 32, 96} \cup {16, 48, 80, 112, 144, 176, 208, 240})

StackOpcodes == {PHP_IMPLIED, PLP_IMPLIED}

\* The instruction pairs: a stack instruction before or after any
\* instruction.
StatusPairs ==
    (StackOpcodes \X StraightOpcodes) \cup (StraightOpcodes \X StackOpcodes)

\* The bytes stored where the first PLP pops its status from.
StatusBytes == {0, 16, 32, 48, 207, 255}

\* Where the two instructions of a pair sit in RAM.
FirstLoc == OPCODES_MAP[LDA_IMMEDIATE].bytes + OPCODES_MAP[STA_ABSOLUTE].bytes
SecondLoc(first) == FirstLoc + OPCODES_MAP[first].bytes

\* The CPU after CPU::new with this program at RAM 0:
\*   LDA #v; STA $01FE; first; second
\* where operands of `first` and `second` are zero.
InitStatus ==
    /\ \E cart \in ProgramCartridges, v \in StatusBytes, pair \in StatusPairs :
         bus = [Bus_new(cart) EXCEPT
                  !.vram = Put(Put(Put(Put(Put(Put(Put(@,
                               0, LDA_IMMEDIATE), 1, v),
                               2, STA_ABSOLUTE), 3, 254), 4, 1),
                               FirstLoc, pair[1]),
                               SecondLoc(pair[1]), pair[2])]
    /\ cpu = CPU_new
    /\ last = NoOp
    /\ panicked = FALSE
    /\ overflow_checks = TRUE

\* The program runs to its end.
NextStatus == cpu.pc < FirstLoc + 4 /\ Step

SpecStatus == InitStatus /\ [][NextStatus]_vars

\* A PLP of the program has been executed.
PlpExecuted ==
    \/ cpu.pc > FirstLoc /\ At(bus.vram, FirstLoc) = PLP_IMPLIED
    \/ \E first \in StraightOpcodes :
         /\ At(bus.vram, FirstLoc) = first
         /\ cpu.pc > SecondLoc(first)
         /\ At(bus.vram, SecondLoc(first)) = PLP_IMPLIED

\* C22: while no PLP and no RTI has been executed the live status bit U is 1,
\* and in every reachable state the live status bit B is 0.
C22_StatusBits ==
    /\ ~PlpExecuted => contains(cpu.status, UNUSED)
    /\ ~contains(cpu.status, BREAK)

\* PLP has popped 0xFF: every flag but B is live.
C22_Witness ==
    /\ last.op = "step" /\ last.arg = PLP_IMPLIED /\ ~panicked
    /\ At(bus.vram, 510) = 255
    /\ cpu.status = 239

-----------------------------------------------------------------------------
(* Cartridge::new on raw file bytes (checked under SpecCartridge).

   A Vec<u8> cut from a file is [len, off, head]: `len` bytes starting at
   offset `off` of a file whose first bytes are `head` and whose later bytes
   follow the pattern of FileByte, so that every offset of a file is told
   apart from its neighbours and from the offset 512 bytes away. *)

NES_MAGIC_NUMBER == << 78, 69, 83, 26 >>
PRG_ROM_PAGE_SIZE == 16384
CHR_ROM_PAGE_SIZE == 8192

\* The byte at offset i of a file with first bytes `head`.
FileByte(head, i) ==
    IF i < Len(head) THEN head[i + 1] ELSE (i + (i \div 256)) % 256

\* v[k]
VecAt(v, k) == FileByte(v.head, v.off + k)

\* raw[from..to].to_vec()
Slice(v, from, to) == [len |-> to - from, off |-> v.off + from, head |-> v.head]

EmptyVec == [len |-> 0, off |-> 0, head |-> << >>]

\* The results of Cartridge::new: Ok(Cartridge), Err(String), or a panic.
Ok(prg, chr, mapper, mirroring_type) ==
    [tag |-> "Ok", err |-> "", prg |-> prg, chr |-> chr, mapper |-> mapper,
     mirroring_type |-> mirroring_type]
Err(msg) ==
    [tag |-> "Err", err |-> msg, prg |-> EmptyVec, chr |-> EmptyVec, mapper |-> 0,
     mirroring_type |-> ""]
Panic ==
    [tag |-> "Panic", err |-> "", prg |-> EmptyVec, chr |-> EmptyVec, mapper |-> 0,
     mirroring_type |-> ""]
NotParsed ==
    [tag |-> "", err |-> "", prg |-> EmptyVec, chr |-> EmptyVec, mapper |-> 0,
     mirroring_type |-> ""]

\* The PRG entry point without the trainer.
entry_point_skips_no_trainer(has_trainer) == 16

\* `16 + if has_trainer { 512 } else { 0 }`
entry_point_of_prg_rom(has_trainer) == 16 + (IF has_trainer THEN 512 ELSE 0)

\* The `match (has_four_scrren_vram_layout, is_vertical_mirroring)`.
mirroring_of(has_four_scrren_vram_layout, is_vertical_mirroring) ==
    IF has_four_scrren_vram_layout THEN "FourScreen"
    ELSE IF is_vertical_mirroring THEN "Vertical"
    ELSE "Horizontal"

\* Cartridge::new.  Indexing past the end of `raw` and a slice that ends past
\* it panic.
Cartridge_new(raw) ==
    LET cut(prg_at, chr_at, chr_end, mapper, mirroring_type) ==
            IF chr_at > raw.len \/ chr_end > raw.len THEN Panic
            ELSE Ok(Slice(raw, prg_at, chr_at), Slice(raw, chr_at, chr_end),
                    mapper, mirroring_type)
        layout(prg_at, size_of_prg_rom, size_of_chr_rom, mapper, mirroring_type) ==
            cut(prg_at, prg_at + size_of_prg_rom,
                prg_at + size_of_prg_rom + size_of_chr_rom, mapper, mirroring_type)
        header(num_of_prg_banks, num_of_chr_banks, ctrl_byte_one, ctrl_byte_two) ==
            IF raw.len < 10 THEN Panic
            ELSE IF BitAnd(ctrl_byte_two, 3) # 0
            THEN Err("not valid iNES 1.0 cartridge!")
            ELSE IF BitAnd(ctrl_byte_two, 12) = 2
            THEN Err("not support iNES 2.0 cartridge!")
            ELSE layout(entry_point_of_prg_rom(BitAnd(ctrl_byte_one, 4) # 0),
                        num_of_prg_banks * PRG_ROM_PAGE_SIZE,
                        num_of_chr_banks * CHR_ROM_PAGE_SIZE,
                        BitOr(BitAnd(ctrl_byte_two, 240), ctrl_byte_one \div 16),
                        mirroring_of(BitAnd(ctrl_byte_one, 8) # 0,
                                     BitAnd(ctrl_byte_one, 1) # 0))
    IN  IF raw.len < 8
           \/ << VecAt(raw, 0), VecAt(raw, 1), VecAt(raw, 2), VecAt(raw, 3) >>
                # NES_MAGIC_NUMBER
        THEN Err("not valid nes cartridge!")
        ELSE header(VecAt(raw, 4), VecAt(raw, 5), VecAt(raw, 6), VecAt(raw, 7))

\* The files: the first four bytes, the bank counts, the two control bytes,
\* and the length.
Magics == { NES_MAGIC_NUMBER, << 78, 69, 83, 0 >>, << 0, 69, 83, 26 >> }
MaxPrgBanks == 2
MaxChrBanks == 1
ControlOnes == {0, 1, 4, 8, 9, 13, 16, 242}
ControlTwos == {0, 1, 2, 3, 4, 8, 12, 16, 240, 248}
ShortLens == {0, 3, 7, 8, 9, 10, 15, 16}

\* The length the header asks for.
Needed(prg_banks, chr_banks, ctrl_one) ==
    16 + (IF BitAnd(ctrl_one, 4) # 0 THEN 512 ELSE 0)
       + prg_banks * PRG_ROM_PAGE_SIZE + chr_banks * CHR_ROM_PAGE_SIZE

\* A file of `len` bytes with the given header fields.
RawFile(magic, prg_banks, chr_banks, ctrl_one, ctrl_two, len) ==
    LET header == magic \o << prg_banks, chr_banks, ctrl_one, ctrl_two,
                              0, 0, 0, 0, 0, 0, 0, 0 >>
    IN  [len |-> len, off |-> 0,
         head |-> SubSeq(header, 1, IF len < 16 THEN len ELSE 16)]

\* A file has been read; nothing is parsed yet.
InitCartridge ==
    /\ \E magic \in Magics, prg_banks \in 0..MaxPrgBanks, chr_banks \in 0..MaxChrBanks,
          ctrl_one \in ControlOnes, ctrl_two \in ControlTwos :
         \E len \in ShortLens \cup
                    { Needed(prg_banks, chr_banks, ctrl_one) + d : d \in {-1, 0, 5} } :
            last = [op |-> "file",
                    arg |-> RawFile(magic, prg_banks, chr_banks, ctrl_one, ctrl_two, len),
                    data |-> 0, ret |-> NotParsed]
    /\ \E c \in ProgramCartridges : bus = Bus_new(c)
    /\ cpu = CPU_new
    /\ panicked = FALSE
    /\ overflow_checks = TRUE

\* Cartridge::new(&raw)
Parse ==
    /\ last.op = "file"
    /\ \E result \in {Cartridge_new(last.arg)} :
         /\ last' = [last EXCEPT !.op = "Cartridge_new", !.ret = result]
         /\ panicked' = (result.tag = "Panic")
    /\ UNCHANGED <<cpu, bus, overflow_checks>>

NextCartridge == Parse

SpecCartridge == InitCartridge /\ [][NextCartridge]_vars

\* The header bytes of the parsed file.
Byte6 == VecAt(last.arg, 6)
Byte7 == VecAt(last.arg, 7)

\* C23: parsing rejects with an error every input whose byte 7 has bits 2-3
\* equal to binary 10, and every input whose byte 7 has either of its low two
\* bits set.
C23_Rejects ==
    (last.op = "Cartridge_new" /\ last.arg.len >= 8
       /\ (BitAnd(Byte7, 12) = 8 \/ BitAnd(Byte7, 3) # 0)) =>
        last.ret.tag = "Err"

\* C24: parsing is total: every input yields a Cartridge or an error and
\* never a crash; an input shorter than the 16-byte header, or shorter than
\* 16 + (trainer ? 512 : 0) + prg_pages*16384 + chr_pages*8192 bytes, yields
\* an error, and so does an input not starting with 4E 45 53 1A.
C24_Total ==
    last.op = "Cartridge_new" =>
        /\ last.ret.tag \in {"Ok", "Err"}
        /\ last.arg.len < 16 => last.ret.tag = "Err"
        /\ (last.arg.len >= 16
              /\ last.arg.len < Needed(VecAt(last.arg, 4), VecAt(last.arg, 5), Byte6)) =>
             last.ret.tag = "Err"
        /\ (last.arg.len >= 4 /\ SubSeq(last.arg.head, 1, 4) # NES_MAGIC_NUMBER) =>
             last.ret.tag = "Err"

\* The offsets probed in the PRG and CHR data of a parsed cartridge.
SliceProbes == {0, 1, 255, 256, 511, 512, 8191, 16383, 16384, 32767}

\* C25: for every accepted input, prg is the bytes [o, o + prg_pages*16384)
\* and chr the bytes that follow, up to chr_pages*8192 of them, with
\* o = 16 + (512 if byte 6 bit 2 is set else 0); mapper is
\* (byte7 & 0xF0) | (byte6 >> 4); mirroring is FourScreen if byte 6 bit 3 is
\* set, else Vertical if byte 6 bit 0 is set, else Horizontal.
C25_Parsed ==
    (last.op = "Cartridge_new" /\ last.ret.tag = "Ok") =>
        LET raw == last.arg
            o == 16 + (IF (Byte6 \div 4) % 2 = 1 THEN 512 ELSE 0)
            prg_size == VecAt(last.arg, 4) * 16384
            chr_size == VecAt(last.arg, 5) * 8192
        IN  /\ last.ret.prg.len = prg_size
            /\ \A k \in SliceProbes :
                 k < prg_size => VecAt(last.ret.prg, k) = VecAt(raw, o + k)
            /\ last.ret.chr.len = chr_size
            /\ \A k \in SliceProbes :
                 k < chr_size => VecAt(last.ret.chr, k) = VecAt(raw, o + prg_size + k)
            /\ last.ret.mapper = (Byte7 \div 16) * 16 + (Byte6 \div 16)
            /\ last.ret.mirroring_type =
                 IF (Byte6 \div 8) % 2 = 1 THEN "FourScreen"
                 ELSE IF Byte6 % 2 = 1 THEN "Vertical"
                 ELSE "Horizontal"

\* A file with a trainer, two PRG banks and one CHR bank has been accepted:
\* mapper 0xF0, four-screen mirroring, PRG starting at offset 528.
C25_Witness ==
    /\ last.op = "Cartridge_new" /\ last.ret.tag = "Ok"
    /\ Byte6 = 13 /\ Byte7 = 240 /\ VecAt(last.arg, 4) = 2 /\ VecAt(last.arg, 5) = 1
    /\ last.ret.prg.off = 528 /\ last.ret.chr.len = 8192
    /\ last.ret.mapper = 240 /\ last.ret.mirroring_type = "FourScreen"

-----------------------------------------------------------------------------
(* The PPU data port behind ADDR and CTRL (checked under SpecVram). *)

\* The cartridges of both nametable arrangements.
VramCartridges ==
    { [prg |-> "fill16", chr |-> "chr0", mirroring_type |-> t] :
        t \in {"Horizontal", "Vertical"} }

\* The bytes written to ADDR: high bytes of pattern table, nametable and
\* palette addresses, low bytes on and off the palette mirrors.
VramAddrBytes == {0, 16, 32, 40, 63}

\* The bytes written to CTRL: VRAM increment 1 or 32.
VramCtrl == {0, VRAM_ADDR_INC}

\* The byte written through the data port.
VramData == {85}

InitVram ==
    /\ \E c \in VramCartridges : bus = Bus_new(c)
    /\ cpu = CPU_new
    /\ last = NoOp
    /\ panicked = FALSE
    /\ overflow_checks = TRUE

NextVram ==
    \/ \E d \in VramCtrl : MemWrite(PPU_REG_CTRL, d)
    \/ \E a \in VramAddrBytes : MemWrite(PPU_REG_ADDR, a)
    \/ \E v \in VramData : MemWrite(PPU_REG_DATA, v)
    \/ MemRead(PPU_REG_DATA)

SpecVram == InitVram /\ [][NextVram]_vars

\* The VRAM address a data-port access uses, and the step CTRL selects.
VramAddr == bus.ppu.address_register.vram_addr
VramStep == IF (bus.ppu.ctrl_register \div 4) % 2 = 1 THEN 32 ELSE 1

\* The transition is a data-port read / write that did not fail.
IsDataRead == last'.op = "mem_read" /\ last'.arg = PPU_REG_DATA
IsDataWrite == last'.op = "mem_write" /\ last'.arg = PPU_REG_DATA

\* C27: every read or write of the data port increases the PPU's VRAM
\* address by the step CTRL bit 2 selects (1 or 32), masked to 14 bits.
C27_DataIncrement ==
    [][((IsDataRead \/ IsDataWrite) /\ ~panicked') =>
         bus'.ppu.address_register.vram_addr = (VramAddr + VramStep) % 16384]_vars

\* The nametable byte index of address a in 0x2000..0x2FFF under the
\* cartridge's mirroring.
MirrorNt(mirroring_type, a) ==
    LET addr == a - 8192
        index == (a - 8192) \div 1024
    IN  IF mirroring_type = "Vertical" /\ index \in {2, 3} THEN addr - 2048
        ELSE IF mirroring_type = "Horizontal" /\ index \in {1, 2} THEN addr - 1024
        ELSE IF mirroring_type = "Horizontal" /\ index = 3 THEN addr - 2048
        ELSE addr

\* C28: a data-port read at an address a in 0x0000..0x2FFF returns the
\* previous content of the read buffer and then loads the buffer with the
\* byte at a.
C28_ReadBuffer ==
    [][(IsDataRead /\ VramAddr <= 12287) =>
         /\ ~panicked'
         /\ last'.ret = bus.ppu.internal_last_read_byte
         /\ bus'.ppu.internal_last_read_byte =
              IF VramAddr <= 8191 THEN ChrAt(bus.ppu.chr, VramAddr)
              ELSE At(bus.ppu.vram, MirrorNt(bus.ppu.mirroring_type, VramAddr))]_vars

\* C29: data-port reads and writes at every nametable address a in
\* 0x2000..0x2FFF succeed and access vram[mirror_nt(a)], an index below 2048.
C29_Nametable ==
    [][/\ (IsDataWrite /\ VramAddr \in 8192..12287) =>
            /\ ~panicked'
            /\ MirrorNt(bus.ppu.mirroring_type, VramAddr) < 2048
            /\ bus'.ppu.vram =
                 Put(bus.ppu.vram, MirrorNt(bus.ppu.mirroring_type, VramAddr), last'.data)
       /\ (IsDataRead /\ VramAddr \in 8192..12287) =>
            /\ ~panicked'
            /\ bus'.ppu.internal_last_read_byte =
                 At(bus.ppu.vram, MirrorNt(bus.ppu.mirroring_type, VramAddr))]_vars

\* The palette index of address a in 0x3F00..0x3FFF: a & 0x1F, with 0x10,
\* 0x14, 0x18 and 0x1C aliasing 0x00, 0x04, 0x08 and 0x0C.
PaletteIndex(a) ==
    IF (a % 32) \in {16, 20, 24, 28} THEN (a % 32) - 16 ELSE a % 32

\* C30: for every address a in 0x3F00..0x3FFF a data-port read returns
\* palette[a & 0x1F] at once and a data-port write stores into
\* palette[a & 0x1F], 0x3F10/14/18/1C aliasing 0x3F00/04/08/0C for both.
C30_Palette ==
    [][/\ (IsDataRead /\ VramAddr \in 16128..16383) =>
            /\ ~panicked'
            /\ last'.ret = At(bus.ppu.palette, PaletteIndex(VramAddr))
       /\ (IsDataWrite /\ VramAddr \in 16128..16383) =>
            /\ ~panicked'
            /\ bus'.ppu.palette = Put(bus.ppu.palette, PaletteIndex(VramAddr), last'.data)]_vars

-----------------------------------------------------------------------------
(* The write latches of ADDR and SCROLL (checked under SpecLatch). *)

\* The bytes written to ADDR: high bytes inside and beyond the 14-bit range,
\* and low bytes.
LatchAddrBytes == {33, 64, 255}

\* The bytes written to SCROLL.
LatchScrollBytes == {7}

\* The byte written through the data port.
LatchData == {85}

NextLatch ==
    \/ \E a \in LatchAddrBytes : MemWrite(PPU_REG_ADDR, a)
    \/ \E d \in LatchScrollBytes : MemWrite(PPU_REG_SCROLL, d)
    \/ \E v \in LatchData : MemWrite(PPU_REG_DATA, v)
    \/ MemRead(PPU_REG_DATA)

SpecLatch == InitVram /\ [][NextLatch]_vars

\* An even number of writes has gone to ADDR and SCROLL together: a toggle
\* shared by the two registers is in its first state.
SharedFirst == bus.ppu.address_register.write_hi = bus.ppu.scroll_register.latch

IsAddrWrite == last'.op = "mem_write" /\ last'.arg = PPU_REG_ADDR
IsScrollWrite == last'.op = "mem_write" /\ last'.arg = PPU_REG_SCROLL

\* C31: ADDR and SCROLL share one write toggle: under any interleaving of
\* writes to the two registers, a write to either one is a first write when
\* the shared toggle is in its first state, and a second write otherwise.
C31_SharedLatch ==
    [][/\ (IsAddrWrite /\ ~SharedFirst) =>
            bus'.ppu.address_register.vram_addr =
               BitOr(bus.ppu.address_register.vram_addr, last'.data) % 16384
       /\ (IsAddrWrite /\ SharedFirst) =>
            bus'.ppu.address_register.vram_addr = (last'.data * 256) % 16384
       /\ (IsScrollWrite /\ ~SharedFirst) =>
            bus'.ppu.scroll_register.cam_position_y = last'.data
       /\ (IsScrollWrite /\ SharedFirst) =>
            bus'.ppu.scroll_register.cam_position_x = last'.data]_vars

\* C32: with the latch in its first state, two consecutive writes h then l to
\* ADDR leave the VRAM address at ((h << 8) | l) & 0x3FFF; and after any
\* sequence of ADDR writes and data-port accesses the address is within
\* 0x0000..0x3FFF.
C32_AddrPair ==
    [][/\ (IsAddrWrite /\ last.op = "mem_write" /\ last.arg = PPU_REG_ADDR
             /\ ~bus.ppu.address_register.write_hi) =>
            bus'.ppu.address_register.vram_addr = (last.data * 256 + last'.data) % 16384
       /\ bus'.ppu.address_register.vram_addr \in 0..16383]_vars

\* 0xFF then 0x21 has been written: the address is 0x3F21.
C32_Witness ==
    /\ last.op = "mem_write" /\ last.arg = PPU_REG_ADDR /\ last.data = 33
    /\ bus.ppu.address_register.write_hi
    /\ bus.ppu.address_register.vram_addr = 16161

-----------------------------------------------------------------------------
(* PPU::get_mirror_vram_addr on every nametable address (checked under
   SpecMirror). *)

\* The match of get_mirror_vram_addr with the Horizontal arm for index 2
\* folding by 0x800.
mirror_match_folds_wide(mirroring_type, addr) ==
    LET index == addr \div 1024
    IN  IF mirroring_type = "Vertical" /\ index \in {2, 3} THEN addr - 2048
        ELSE IF mirroring_type = "Horizontal" /\ index = 1 THEN addr - 1024
        ELSE IF mirroring_type = "Horizontal" /\ index = 2 THEN addr - 2048
        ELSE IF mirroring_type = "Horizontal" /\ index = 3 THEN addr - 2048
        ELSE addr

\* The `match (&self.mirroring_type, index)` of get_mirror_vram_addr, on the
\* address already brought to 0x0000..0x0FFF.
mirror_match(mirroring_type, addr) ==
    LET index == addr \div 1024
    IN  IF mirroring_type = "Vertical" /\ index \in {2, 3} THEN addr - 2048
        ELSE IF mirroring_type = "Horizontal" /\ index = 1 THEN addr - 1024
        ELSE IF mirroring_type = "Horizontal" /\ index = 2 THEN addr - 1024
        ELSE IF mirroring_type = "Horizontal" /\ index = 3 THEN addr - 2048
        ELSE addr

\* PPU::get_mirror_vram_addr.  `addr -= 0x2000` overflows below 0x2000: a
\* panic with overflow checks, a wrap without.
get_mirror_vram_addr(p, addr, checks) ==
    LET masked == BitAnd(addr, 12287)
    IN  IF masked < 8192 /\ checks THEN [ret |-> 0, panic |-> TRUE]
        ELSE [ret |-> mirror_match(p.mirroring_type, (masked + 57344) % 65536),
              panic |-> FALSE]

\* The cartridges of the three nametable arrangements.
MirrorCartridges ==
    { [prg |-> "fill16", chr |-> "chr0", mirroring_type |-> t] :
        t \in {"Horizontal", "Vertical", "FourScreen"} }

\* The nametable addresses and their mirrors up to 0x3EFF.
MirrorAddrs == 8192..16127

InitMirror ==
    /\ \E c \in MirrorCartridges : bus = Bus_new(c)
    /\ cpu = CPU_new
    /\ last = NoOp
    /\ panicked = FALSE
    /\ overflow_checks \in BOOLEAN

\* ppu.get_mirror_vram_addr(addr)
GetMirrorVramAddr(addr) ==
    /\ ~panicked
    /\ \E r \in {get_mirror_vram_addr(bus.ppu, addr, overflow_checks)} :
         /\ last' = [op |-> "get_mirror_vram_addr", arg |-> addr, data |-> 0,
                     ret |-> r.ret]
         /\ panicked' = r.panic
    /\ UNCHANGED <<cpu, bus, overflow_checks>>

\* One call on the PPU as constructed.
NextMirror == \E addr \in MirrorAddrs : last.op = "new" /\ GetMirrorVramAddr(addr)

SpecMirror == InitMirror /\ [][NextMirror]_vars

\* C33: for every addr in 0x2000..0x3EFF, with offset = (addr & 0x2FFF) -
\* 0x2000 and idx = offset / 0x400, get_mirror_vram_addr returns: Vertical ->
\* offset for idx 0, 1 and offset - 0x800 for idx 2, 3; Horizontal -> offset
\* for idx 0, offset - 0x400 for idx 1 and 2, offset - 0x800 for idx 3;
\* FourScreen -> offset; for Vertical and Horizontal the result is < 0x800.
C33_MirrorNt ==
    last.op = "get_mirror_vram_addr" =>
        LET offset == (IF last.arg >= 12288 THEN last.arg - 4096 ELSE last.arg) - 8192
            idx == ((IF last.arg >= 12288 THEN last.arg - 4096 ELSE last.arg) - 8192) \div 1024
            t == bus.ppu.mirroring_type
        IN  /\ ~panicked
            /\ t = "Vertical" =>
                 /\ last.ret = IF idx \in {0, 1} THEN offset ELSE offset - 2048
                 /\ last.ret < 2048
            /\ t = "Horizontal" =>
                 /\ last.ret = IF idx = 0 THEN offset
                               ELSE IF idx \in {1, 2} THEN offset - 1024
                               ELSE offset - 2048
                 /\ last.ret < 2048
            /\ t = "FourScreen" => last.ret = offset

\* 0x3BFF (a mirror of 0x2BFF, nametable 2) has been mapped with Horizontal
\* mirroring: index 0x7FF.
C33_Witness ==
    /\ last.op = "get_mirror_vram_addr" /\ last.arg = 15359
    /\ bus.ppu.mirroring_type = "Horizontal"
    /\ last.ret = 2047

\* The byte and the word on top of the stack.
PoppedByte == At(bus.vram, STACK_BOTTOM_LOC + ((cpu.sp + 1) % 256))
PoppedWord ==
    At(bus.vram, STACK_BOTTOM_LOC + ((cpu.sp + 3) % 256)) * 256
    + At(bus.vram, STACK_BOTTOM_LOC + ((cpu.sp + 2) % 256))

\* C34: after PLP (0x28), and after RTI (0x40), the live status has B clear
\* and U set for every byte popped, the other six bits being those of the
\* popped byte; RTI also sets PC to the popped 16-bit value, with no +1.
C34_PlpRti ==
    [][/\ (last'.op = "step" /\ last'.arg = PLP_IMPLIED) =>
            /\ ~panicked'
            /\ cpu'.status = insert(remove(PoppedByte, BREAK), UNUSED)
       /\ (last'.op = "step" /\ last'.arg = 64) =>
            /\ ~panicked'
            /\ cpu'.status = insert(remove(PoppedByte, BREAK), UNUSED)
            /\ cpu'.pc = PoppedWord]_vars

\* ---------------------------------------------------------------------------
\* One instruction on chosen registers and a chosen memory operand.
\* ---------------------------------------------------------------------------

\* opcode.rs: the register transfers, BIT, and the shifts and rotates with
\* their documented opcode bytes (accumulator, zero page, zero page X,
\* absolute, absolute X).
TransferOpcodes == {170, 168, 138, 152, 186, 154}
BitOpcodes == {36, 44}
AslOpcodes == {10, 6, 22, 14, 30}
LsrOpcodes == {74, 70, 86, 78, 94}
RolOpcodes == {42, 38, 54, 46, 62}
RorOpcodes == {106, 102, 118, 110, 126}
ShiftOpcodes == AslOpcodes \cup LsrOpcodes \cup RolOpcodes \cup RorOpcodes
RegOpcodes == TransferOpcodes \cup BitOpcodes \cup ShiftOpcodes

\* Register and operand values: zero, one, each of bits 6 and 7 alone and
\* together, and all ones.
RegBytes == {0, 1, 64, 127, 128, 192, 255}
IndexBytes == {0, 1, 128}
RegStatus == { UNUSED, UNUSED + CARRY + ZERO + NEGATIVE + OVERFLOW }

\* The operand bytes of the instruction at RAM 0: zero-page address 0x10,
\* which is also the absolute address 0x0010.
OperandLoc == 16

\* The CPU with A, X, Y and P loaded, the instruction written at RAM 0 and
\* the byte M stored in the cell every unindexed operand names.
InitRegs ==
    /\ \E cart \in ProgramCartridges, op \in RegOpcodes, M \in RegBytes :
         bus = [Bus_new(cart) EXCEPT
                  !.vram = Put(Put(Put(@, 0, op), 1, OperandLoc), OperandLoc, M)]
    /\ \E a \in RegBytes, x \in IndexBytes, y \in IndexBytes, p \in RegStatus :
         cpu = [CPU_new EXCEPT !.acc = a, !.rx = x, !.ry = y, !.status = p]
    /\ last = NoOp
    /\ panicked = FALSE
    /\ overflow_checks = TRUE

NextRegs == last.op = "new" /\ Step

SpecRegs == InitRegs /\ [][NextRegs]_vars

\* Z and N of a status byte are those of the value.
ZNOf(status, value) ==
    /\ contains(status, ZERO) <=> (value = 0)
    /\ contains(status, NEGATIVE) <=> (value >= 128)

\* C35: TXS copies X into SP and leaves every status flag unchanged; TAX,
\* TAY, TXA, TYA and TSX copy the source register and set Z = (value = 0)
\* and N = bit 7 of the value.
C35_Transfers ==
    [][(last'.op = "step" /\ last'.arg \in TransferOpcodes) =>
         /\ ~panicked'
         /\ last'.arg = 154 => cpu'.sp = cpu.rx /\ cpu'.status = cpu.status
         /\ last'.arg = 170 => cpu'.rx = cpu.acc /\ ZNOf(cpu'.status, cpu.acc)
         /\ last'.arg = 168 => cpu'.ry = cpu.acc /\ ZNOf(cpu'.status, cpu.acc)
         /\ last'.arg = 138 => cpu'.acc = cpu.rx /\ ZNOf(cpu'.status, cpu.rx)
         /\ last'.arg = 152 => cpu'.acc = cpu.ry /\ ZNOf(cpu'.status, cpu.ry)
         /\ last'.arg = 186 => cpu'.rx = cpu.sp /\ ZNOf(cpu'.status, cpu.sp)]_vars

\* C36: for every accumulator value A and memory operand M, BIT sets N to
\* bit 7 of M, V to bit 6 of M and Z to ((A and M) = 0), and leaves A, M, C
\* and all other state unchanged.
C36_Bit ==
    [][(last'.op = "step" /\ last'.arg \in BitOpcodes) =>
         LET A == cpu.acc
             M == At(bus.vram, OperandLoc)
         IN  /\ ~panicked'
             /\ contains(cpu'.status, NEGATIVE) <=> (M >= 128)
             /\ contains(cpu'.status, OVERFLOW) <=> (BitAnd(M, 64) # 0)
             /\ contains(cpu'.status, ZERO) <=> (BitAnd(A, M) = 0)
             /\ remove(cpu'.status, NEGATIVE + OVERFLOW + ZERO)
                  = remove(cpu.status, NEGATIVE + OVERFLOW + ZERO)
             /\ cpu'.acc = A /\ cpu'.rx = cpu.rx /\ cpu'.ry = cpu.ry
             /\ cpu'.sp = cpu.sp
             /\ bus' = bus]_vars

\* The effective address of a shift or rotate on memory, by the documented
\* addressing mode of its opcode: zero page and absolute name OperandLoc,
\* the X-indexed forms add X.
ShiftIndexed == {22, 30, 86, 94, 54, 62, 118, 126}
ShiftAccumulator == {10, 74, 42, 106}
ShiftAddr(op, c) == IF op \in ShiftIndexed THEN OperandLoc + c.rx ELSE OperandLoc

\* The documented result of the shift or rotate of value v with carry c.
ShiftResult(op, v, c) ==
    IF op \in AslOpcodes THEN (v * 2) % 256
    ELSE IF op \in LsrOpcodes THEN v \div 2
    ELSE IF op \in RolOpcodes THEN ((v * 2) % 256) + c
    ELSE (v \div 2) + 128 * c

\* The bit shifted out: old bit 7 for ASL and ROL, old bit 0 for LSR and ROR.
ShiftedOut(op, v) ==
    IF op \in AslOpcodes \cup RolOpcodes THEN v >= 128 ELSE v % 2 = 1

\* C37: the memory forms of ASL, LSR, ROL and ROR read M at the effective
\* address, write the result back to that address, leave the accumulator
\* unchanged and set C to the bit shifted out, the old carry filling the
\* vacated bit for ROL and ROR; the accumulator forms do the same on A and
\* leave memory unchanged.
C37_Shifts ==
    [][(last'.op = "step" /\ last'.arg \in ShiftOpcodes) =>
         LET op == last'.arg
             addr == ShiftAddr(last'.arg, cpu)
         IN  /\ ~panicked'
             /\ op \in ShiftAccumulator =>
                  /\ cpu'.acc = ShiftResult(op, cpu.acc, CarryOf(cpu))
                  /\ contains(cpu'.status, CARRY) <=> ShiftedOut(op, cpu.acc)
                  /\ bus' = bus
             /\ op \notin ShiftAccumulator =>
                  /\ bus'.vram = Put(bus.vram, addr,
                                     ShiftResult(op, At(bus.vram, addr), CarryOf(cpu)))
                  /\ contains(cpu'.status, CARRY) <=> ShiftedOut(op, At(bus.vram, addr))
                  /\ cpu'.acc = cpu.acc]_vars

\* ---------------------------------------------------------------------------
\* STA through a zero-page pointer.
\* ---------------------------------------------------------------------------

\* opcode.rs: STA (zp,X) and STA (zp),Y.
STA_INDIRECT_X == 129
STA_INDIRECT_Y == 145

\* Where the instruction is placed, clear of page zero.
ProgramLoc == 512

\* Page zero holds four pointers: 0x0300 at 0x10, 0x0340 at 0x12, 0x0005 at
\* 0x01 and, across the page wrap, 0x0480 at 0xFF and 0x00.
PointerCells == (16 :> 0) @@ (17 :> 3) @@ (18 :> 64) @@ (19 :> 3)
                @@ (255 :> 128) @@ (0 :> 4) @@ (1 :> 5)

IndirectOpcodes == {STA_INDIRECT_X, STA_INDIRECT_Y}
IndirectBases == {16, 255}
IndirectX == {0, 2, 17}
IndirectY == {0, 1, 4, 255}
IndirectAcc == {85, 170, 255}

\* The CPU about to execute STA (base,X) or STA (base),Y at ProgramLoc.
InitIndirect ==
    /\ \E cart \in ProgramCartridges, op \in IndirectOpcodes, base \in IndirectBases :
         bus = [Bus_new(cart) EXCEPT
                  !.vram.cells = (ProgramLoc :> op) @@ (ProgramLoc + 1 :> base)
                                 @@ [i \in {j \in DOMAIN PointerCells : PointerCells[j] # 0}
                                       |-> PointerCells[i]]]
    /\ \E a \in IndirectAcc, x \in IndirectX, y \in IndirectY :
         cpu = [CPU_new EXCEPT !.pc = ProgramLoc, !.acc = a, !.rx = x, !.ry = y]
    /\ last = NoOp
    /\ panicked = FALSE
    /\ overflow_checks = TRUE

NextIndirect == last.op = "new" /\ Step

SpecIndirect == InitIndirect /\ [][NextIndirect]_vars

\* The word a zero-page pointer holds, its high byte read from the next cell
\* of page zero.
ZeroPageWord(ptr) == At(bus.vram, ptr) + 256 * At(bus.vram, (ptr + 1) % 256)

\* C38: each opcode's table entry carries its documented addressing mode:
\* STA (zp),Y (0x91) stores A at (the word read from zero-page base, wrapping
\* within page zero) + Y, and STA (zp,X) (0x81) stores A at the word read
\* from zero-page (base + X) mod 256.
C38_StaIndirect ==
    [][(last'.op = "step" /\ last'.arg \in IndirectOpcodes) =>
         LET base == At(bus.vram, ProgramLoc + 1)
         IN  /\ ~panicked'
             /\ last'.arg = STA_INDIRECT_Y =>
                  bus'.vram = Put(bus.vram, (ZeroPageWord(base) + cpu.ry) % 65536, cpu.acc)
             /\ last'.arg = STA_INDIRECT_X =>
                  bus'.vram = Put(bus.vram, ZeroPageWord((base + cpu.rx) % 256), cpu.acc)]_vars

\* ---------------------------------------------------------------------------
\* The stack primitives of common.rs, called on every stack pointer.
\* ---------------------------------------------------------------------------

StackPointers == 0..255
StackBytes == {0, 165}
StackWords == {0, 65281, 4660}

InitStack ==
    /\ \E cart \in ProgramCartridges : bus = Bus_new(cart)
    /\ \E s \in StackPointers : cpu = [CPU_new EXCEPT !.sp = s]
    /\ last = NoOp
    /\ panicked = FALSE
    /\ overflow_checks = TRUE

\* stack_push(cpu, value); `last.data` keeps the stack pointer before the call.
StackPush(value) ==
    /\ ~panicked
    /\ \E m \in {stack_push(Machine(cpu, bus, overflow_checks), value)} :
         /\ cpu' = m.cpu
         /\ bus' = m.bus
         /\ panicked' = m.panic
    /\ last' = [op |-> "stack_push", arg |-> value, data |-> cpu.sp, ret |-> 0]
    /\ UNCHANGED overflow_checks

\* stack_pop(cpu)
StackPop ==
    /\ ~panicked
    /\ \E r \in {stack_pop(Machine(cpu, bus, overflow_checks))} :
         /\ cpu' = r.m.cpu
         /\ bus' = r.m.bus
         /\ panicked' = r.m.panic
         /\ last' = [op |-> "stack_pop", arg |-> 0, data |-> cpu.sp, ret |-> r.ret]
    /\ UNCHANGED overflow_checks

\* stack_push_u16(cpu, value)
StackPushU16(value) ==
    /\ ~panicked
    /\ \E m \in {stack_push_u16(Machine(cpu, bus, overflow_checks), value)} :
         /\ cpu' = m.cpu
         /\ bus' = m.bus
         /\ panicked' = m.panic
    /\ last' = [op |-> "stack_push_u16", arg |-> value, data |-> cpu.sp, ret |-> 0]
    /\ UNCHANGED overflow_checks

\* stack_pop_u16(cpu)
StackPopU16 ==
    /\ ~panicked
    /\ \E r \in {stack_pop_u16(Machine(cpu, bus, overflow_checks))} :
         /\ cpu' = r.m.cpu
         /\ bus' = r.m.bus
         /\ panicked' = r.m.panic
         /\ last' = [op |-> "stack_pop_u16", arg |-> 0, data |-> cpu.sp, ret |-> r.ret]
    /\ UNCHANGED overflow_checks

\* Pushes on a fresh or just-popped stack, each pop right after its push.
NextStack ==
    \/ \E v \in StackBytes :
         last.op \in {"new", "stack_pop", "stack_pop_u16"} /\ StackPush(v)
    \/ \E w \in StackWords :
         last.op \in {"new", "stack_pop", "stack_pop_u16"} /\ StackPushU16(w)
    \/ last.op = "stack_push" /\ StackPop
    \/ last.op = "stack_push_u16" /\ StackPopU16

SpecStack == InitStack /\ [][NextStack]_vars

\* C39: a push writes the byte at 0x0100 + SP and then sets SP to (SP - 1)
\* mod 256; a pop sets SP to (SP + 1) mod 256 and then reads 0x0100 + SP; so
\* for every SP, the wraps at 0x00 and 0xFF included, a push immediately
\* followed by a pop returns the pushed byte and restores SP, and a 16-bit
\* push followed by a 16-bit pop returns the pushed word.
C39_StackDiscipline ==
    [][/\ ~panicked'
       /\ last'.op = "stack_push" =>
            /\ bus'.vram = Put(bus.vram, STACK_BOTTOM_LOC + cpu.sp, last'.arg)
            /\ cpu'.sp = (cpu.sp + 255) % 256
       /\ last'.op = "stack_pop" =>
            /\ cpu'.sp = (cpu.sp + 1) % 256
            /\ last'.ret = At(bus.vram, STACK_BOTTOM_LOC + cpu'.sp)
            /\ bus' = bus
       /\ (last.op = "stack_push" /\ last'.op = "stack_pop") =>
            /\ last'.ret = last.arg
            /\ cpu'.sp = last.data
       /\ (last.op = "stack_push_u16" /\ last'.op = "stack_pop_u16") =>
            /\ last'.ret = last.arg
            /\ cpu'.sp = last.data]_vars

\* The word 0xFF01 has been pushed and popped at SP = 0x00: its high byte
\* sits at 0x0100, its low byte across the wrap at 0x01FF.
C39_Witness ==
    /\ last.op = "stack_pop_u16"
    /\ last.ret = 65281
    /\ cpu.sp = 0
    /\ At(bus.vram, STACK_BOTTOM_LOC) = 255
    /\ At(bus.vram, STACK_BOTTOM_LOC + 255) = 1

\* The scanlines of the vertical blank: 241 up to the last one of the frame.
InVblankLines(p) ==
    p.scanlines >= SCANLINE_TRIGGER_NMI /\ p.scanlines < SCANLINE_PER_FRAME

\* C40: under any interleaving of ticks, CTRL writes and should_nmi calls, a
\* pending NMI implies that STATUS.vblank is set and 241 <= scanline <= 261;
\* so should_nmi returns true at most once per frame: a call that returns
\* true leaves the latch clear inside the vertical blank, and from there the
\* latch stays clear until the scanline counter is back at 0.
C40_NmiPending ==
    /\ [](bus.ppu.should_nmi_flag =>
            /\ contains(bus.ppu.status_register, VBLANK)
            /\ InVblankLines(bus.ppu))
    /\ [][/\ (last'.op = "should_nmi" /\ last'.ret = 1) =>
               /\ ~bus'.ppu.should_nmi_flag
               /\ InVblankLines(bus'.ppu)
          /\ (~bus.ppu.should_nmi_flag /\ InVblankLines(bus.ppu)) =>
               /\ ~bus'.ppu.should_nmi_flag
               /\ InVblankLines(bus'.ppu) \/ bus'.ppu.scanlines = 0]_vars

\* The NMI latched on entering scanline 241 is still pending on scanline 261,
\* the last of the frame.
C40_Witness ==
    /\ bus.ppu.should_nmi_flag
    /\ bus.ppu.scanlines = SCANLINE_PER_FRAME - 1
    /\ contains(bus.ppu.status_register, VBLANK)
    /\ last.op = "tick"

====
